---- MODULE Spec2Model ----
(***************************************************************************)
(* Model of the ko_liwc scoring pipeline: the two feature normalizers      *)
(* (MinMaxNormalizer, ZScoreNormalizer) and the InterviewScorer.           *)
(*                                                                         *)
(* Numbers.  Python floats are modelled in fixed point: the float x is the *)
(* integer x * SCALE, and every division rounds (towards minus infinity)   *)
(* to a multiple of 1/SCALE.  Weights are kept in thousandths.             *)
(***************************************************************************)
EXTENDS Integers, Sequences, FiniteSets, TLC

VARIABLES
    kind,         \* class of the object under test: "minmax", "zscore", "scorer", ...
    preset,       \* MinMaxNormalizer._preset_ranges / ZScoreNormalizer._preset_stats
    stats,        \* _stats: feature name -> FeatureStats / ZScoreStats
    is_fitted,    \* _is_fitted
    op,           \* name of the last call made on the object
    arg,          \* argument of the last call
    ret,          \* outcome of the last call: the exception raised and the mapping returned
    fit_called,   \* history: fit() has been called on the object
    file,         \* the statistics file to_json() writes and from_json() reads
    threads,      \* the transform() calls in progress, one per thread
    weights,      \* InterviewScorer.weights: trait -> feature name -> weight
    vector,       \* the fields of the FeatureVector built by from_dict()
    segments      \* Transcript.segments: the list of stored Segment objects

vars == <<kind, preset, stats, is_fitted, op, arg, ret, fit_called, file, threads, weights, vector, segments>>

----------------------------------------------------------------------------
(* Bounds of the model *)

MaxVal == 2       \* feature values are 0.0, 1.0, .. MaxVal.0
MaxBatch == 2     \* longest list handed to fit()

(* Fixed-point unit: the float 1.0 *)
SCALE == 100

ONE == SCALE
HALF == SCALE \div 2

Names == {"a", "b"}
Vals == {k * SCALE : k \in 0..MaxVal}

(* The empty dict *)
EmptyMap == <<>>

(* Outcome of a call: it returned `value` (self and None are recorded as no
   mapping), or it raised `exception` and returned nothing *)
Return(value) == [raised |-> "none", value |-> value]
Raise(exception) == [raised |-> exception, value |-> EmptyMap]

(* No file at the path / a file holding the JSON document `data` *)
NoFile == [exists |-> FALSE, data |-> EmptyMap]
File(data) == [exists |-> TRUE, data |-> data]

(* Every dict with keys among S and values in V *)
Maps(S, V) == UNION {[D -> V] : D \in SUBSET S}

Inputs == Maps(Names, Vals)

Min(a, b) == IF a <= b THEN a ELSE b
Max(a, b) == IF a >= b THEN a ELSE b

(* a / b on floats *)
FDiv(a, b) == (a * SCALE) \div b

----------------------------------------------------------------------------
(* MinMaxNormalizer *)

PosInf == 1000000000
NegInf == -1000000000

(* FeatureStats() *)
FeatureStats == [min_val |-> PosInf, max_val |-> NegInf, count |-> 0]

(* one pass of the inner loop of fit(): lines 60-66 *)
MMFitItem(st, name, value) ==
    LET cur == IF name \in DOMAIN st THEN st[name] ELSE FeatureStats
        new == [min_val |-> Min(cur.min_val, value),
                max_val |-> Max(cur.max_val, value),
                count |-> cur.count + 1]
    IN  [n \in DOMAIN st \cup {name} |-> IF n = name THEN new ELSE st[n]]

RECURSIVE MMFitSample(_, _, _)
MMFitSample(st, features, todo) ==
    IF todo = {} THEN st
    ELSE LET name == CHOOSE n \in todo : TRUE
         IN  MMFitSample(MMFitItem(st, name, features[name]), features, todo \ {name})

RECURSIVE MMFitFrom(_, _, _)
MMFitFrom(st, features_list, i) ==
    IF i > Len(features_list) THEN st
    ELSE MMFitFrom(MMFitSample(st, features_list[i], DOMAIN features_list[i]),
                   features_list, i + 1)

(* _stats after fit(features_list): cleared, then refilled *)
MMFit(features_list) == MMFitFrom(EmptyMap, features_list, 1)

(* mutant: the clip to [0, 1] of line 108 is missing *)
MMNormalize_NoClip(min_val, max_val, value) ==
    LET range_val == max_val - min_val
    IN  IF range_val > 0 THEN FDiv(value - min_val, range_val) ELSE HALF

(* lines 99-108: rescale and clip *)
MMNormalize(min_val, max_val, value) ==
    LET range_val == max_val - min_val
        normalized == IF range_val > 0 THEN FDiv(value - min_val, range_val) ELSE HALF
    IN  Max(0, Min(ONE, normalized))

(* lines 88-97: which range a feature is normalized with *)
MMTransformItem(pr, st, name, value) ==
    IF name \in DOMAIN pr THEN MMNormalize(pr[name][1], pr[name][2], value)
    ELSE IF name \in DOMAIN st THEN MMNormalize(st[name].min_val, st[name].max_val, value)
    ELSE value

(* mutant: unknown features are dropped instead of passed through *)
MMTransform_DropsUnknown(pr, st, features) ==
    [name \in DOMAIN features \cap (DOMAIN pr \cup DOMAIN st) |->
        MMTransformItem(pr, st, name, features[name])]

MMTransform(pr, st, features) ==
    [name \in DOMAIN features |-> MMTransformItem(pr, st, name, features[name])]

----------------------------------------------------------------------------
(* ZScoreNormalizer *)

(* dict.get(key, default) *)
Get(d, key, default) == IF key \in DOMAIN d THEN d[key] ELSE default

(* ZScoreStats(mean, std, count) *)
ZScoreStats(mean, std, count) == [mean |-> mean, std |-> std, count |-> count]

(* __init__, lines 176-182: preset_stats converted to ZScoreStats *)
ZInitStats(preset_stats) ==
    [name \in DOMAIN preset_stats |->
        ZScoreStats(Get(preset_stats[name], "mean", 0),
                    Get(preset_stats[name], "std", ONE),
                    Get(preset_stats[name], "count", 0))]

(* bool(preset): None and the empty dict are both false *)
Truthy(d) == DOMAIN d # {}

(* lines 204-209: the values of one feature, in list order *)
RECURSIVE FeatureValues(_, _, _)
FeatureValues(features_list, name, i) ==
    IF i > Len(features_list) THEN <<>>
    ELSE IF name \in DOMAIN features_list[i]
         THEN <<features_list[i][name]>> \o FeatureValues(features_list, name, i + 1)
         ELSE FeatureValues(features_list, name, i + 1)

RECURSIVE Sum(_)
Sum(values) == IF values = <<>> THEN 0 ELSE Head(values) + Sum(Tail(values))

(* (v - mean) ** 2 *)
Square(d) == (d * d) \div SCALE

(* math.sqrt: the largest r with r * r <= x, by bisection on [lo, hi) *)
RECURSIVE ISqrt(_, _, _)
ISqrt(x, lo, hi) ==
    IF hi - lo <= 1 THEN lo
    ELSE LET mid == (lo + hi) \div 2
         IN  IF mid * mid <= x THEN ISqrt(x, mid, hi) ELSE ISqrt(x, lo, mid)

Sqrt(x) == ISqrt(x * SCALE, 0, x + SCALE + 1)

Mean(values) == Sum(values) \div Len(values)

(* line 219 *)
Variance(values) ==
    LET mean == Mean(values)
        n == Len(values)
    IN  Sum([i \in 1..n |-> Square(values[i] - mean)]) \div Max(n - 1, 1)

(* mutant: a zero std is stored as it is *)
ZFitFeature_KeepsZeroStd(values) ==
    ZScoreStats(Mean(values), Sqrt(Variance(values)), Len(values))

(* lines 214-226: the statistics of one feature *)
ZFitFeature(values) ==
    LET std == Sqrt(Variance(values))
    IN  ZScoreStats(Mean(values), IF std > 0 THEN std ELSE ONE, Len(values))

(* _stats after fit(features_list) on a non-empty list *)
ZFit(features_list) ==
    LET seen == UNION {DOMAIN features_list[i] : i \in 1..Len(features_list)}
    IN  [name \in seen |-> ZFitFeature(FeatureValues(features_list, name, 1))]

(* lines 248-256 *)
ZTransformItem(st, name, value) ==
    IF name \in DOMAIN st
    THEN IF st[name].std > 0 THEN FDiv(value - st[name].mean, st[name].std) ELSE 0
    ELSE value

ZTransform(st, features) ==
    [name \in DOMAIN features |-> ZTransformItem(st, name, features[name])]

----------------------------------------------------------------------------
(* Life of one normalizer: construction, then fit() and transform() calls *)

(* the lists fit() is given: up to MaxBatch samples of the feature FitNames *)
FitNames == {"a"}
FitSamples == Maps(FitNames, Vals)
FitBatches == UNION {[1..n -> FitSamples] : n \in 0..MaxBatch}

(* preset_ranges arguments: none, or one feature with a (min, max) tuple:
   a proper range, one that starts above 0, a degenerate and an inverted one *)
Ranges == {<<0, 2 * ONE>>, <<ONE, 2 * ONE>>, <<ONE, ONE>>, <<2 * ONE, 0>>}
PresetRanges == {EmptyMap} \cup {n :> r : n \in Names, r \in Ranges}

(* preset_stats arguments: none, or one feature with a statistics dict *)
StatDicts ==
    {EmptyMap, [mean |-> ONE], [mean |-> 0, std |-> ONE],
     [mean |-> ONE, std |-> 2 * ONE], [mean |-> ONE, std |-> 0]}
PresetStats == {EmptyMap} \cup {n :> d : n \in Names, d \in StatDicts}

(* MinMaxNormalizer.__init__(preset_ranges) *)
MMInit(preset_ranges) ==
    /\ kind = "minmax"
    /\ preset = preset_ranges
    /\ stats = EmptyMap
    /\ is_fitted = Truthy(preset_ranges)

(* ZScoreNormalizer.__init__(preset_stats) *)
ZInit(preset_stats) ==
    /\ kind = "zscore"
    /\ preset = preset_stats
    /\ stats = ZInitStats(preset_stats)
    /\ is_fitted = Truthy(preset_stats)

(* nothing has been called, written or started yet *)
Untouched ==
    /\ op = "init"
    /\ arg = EmptyMap
    /\ ret = Return(EmptyMap)
    /\ fit_called = FALSE
    /\ file = NoFile
    /\ threads = EmptyMap
    /\ weights = EmptyMap
    /\ vector = EmptyMap
    /\ segments = <<>>

Init ==
    /\ \/ \E preset_ranges \in PresetRanges : MMInit(preset_ranges)
       \/ \E preset_stats \in PresetStats : ZInit(preset_stats)
    /\ Untouched

(* MinMaxNormalizer.fit *)
MMFitCall(features_list) ==
    /\ kind = "minmax"
    /\ stats' = MMFit(features_list)
    /\ is_fitted' = TRUE
    /\ op' = "fit"
    /\ arg' = features_list
    /\ ret' = Return(EmptyMap)
    /\ fit_called' = TRUE
    /\ UNCHANGED <<kind, preset, file, threads, weights, vector, segments>>

(* ZScoreNormalizer.fit *)
ZFitCall(features_list) ==
    /\ kind = "zscore"
    /\ IF features_list = <<>>
       THEN UNCHANGED <<stats, is_fitted>>
       ELSE /\ stats' = ZFit(features_list)
            /\ is_fitted' = TRUE
    /\ op' = "fit"
    /\ arg' = features_list
    /\ ret' = Return(EmptyMap)
    /\ fit_called' = TRUE
    /\ UNCHANGED <<kind, preset, file, threads, weights, vector, segments>>

(* MinMaxNormalizer.transform on an object with the given fields *)
MMTransformOutcome(fitted, pr, st, features) ==
    IF ~fitted THEN Raise("RuntimeError") ELSE Return(MMTransform(pr, st, features))

(* ZScoreNormalizer.transform on an object with the given fields *)
ZTransformOutcome(fitted, st, features) ==
    IF ~fitted THEN Raise("RuntimeError") ELSE Return(ZTransform(st, features))

(* mutant: the is_fitted guard is missing *)
TransformResult_Unguarded(features) ==
    IF kind = "minmax" THEN Return(MMTransform(preset, stats, features))
    ELSE Return(ZTransform(stats, features))

(* what transform(features) returns or raises on the object under test *)
TransformResult(features) ==
    IF kind = "minmax" THEN MMTransformOutcome(is_fitted, preset, stats, features)
    ELSE ZTransformOutcome(is_fitted, stats, features)

(* MinMaxNormalizer.transform / ZScoreNormalizer.transform *)
TransformCall(features) ==
    /\ kind \in {"minmax", "zscore"}
    /\ op' = "transform"
    /\ arg' = features
    /\ ret' = TransformResult(features)
    /\ UNCHANGED <<kind, preset, stats, is_fitted, fit_called, file, threads, weights, vector, segments>>

Next ==
    \/ \E features_list \in FitBatches : MMFitCall(features_list)
    \/ \E features_list \in FitBatches : ZFitCall(features_list)
    \/ \E features \in Inputs : TransformCall(features)

Spec == Init /\ [][Next]_vars

----------------------------------------------------------------------------
(* Properties of the normalizers *)

Fresh == ~Truthy(preset) /\ ~fit_called
Returned == op = "transform" /\ ret.raised = "none"
out == ret.value

(* C1: on a normalizer built without presets and not yet given to fit(),
   transform() raises for every input, returns no mapping and leaves the
   parameters and the fitted flag as they were. *)
C1_TransformBeforeFitRaises ==
    [][(op' = "transform" /\ ~Truthy(preset') /\ ~fit_called')
          => /\ ret' = Raise("RuntimeError")
             /\ stats' = stats
             /\ preset' = preset
             /\ is_fitted' = is_fitted]_vars

C1_Witness ==
    /\ kind = "zscore"
    /\ Fresh
    /\ op = "transform"
    /\ arg = EmptyMap
    /\ ret.raised = "RuntimeError"

(* the (lo, hi) range MinMaxNormalizer holds for feature f: the preset one,
   or the fitted one when the feature has no preset *)
HasRange(f, lo, hi) ==
    \/ f \in DOMAIN preset /\ preset[f] = <<lo, hi>>
    \/ /\ f \notin DOMAIN preset
       /\ f \in DOMAIN stats
       /\ stats[f].min_val = lo
       /\ stats[f].max_val = hi

RangeEnds == Vals \cup {0, ONE, 2 * ONE}

(* C2: min-max transform of v under range (lo, hi) is 0 at and below lo,
   1 at and above hi, the quotient (v - lo) / (hi - lo) in between, and
   exactly 0.5 under a degenerate range lo = hi. *)
C2_MinMaxClamp ==
    (kind = "minmax" /\ Returned) =>
        \A f \in DOMAIN arg : \A lo, hi \in RangeEnds :
            HasRange(f, lo, hi) =>
                LET v == arg[f]
                    r == out[f]
                IN  /\ (lo < hi /\ v <= lo) => r = 0
                    /\ (lo < hi /\ v >= hi) => r = ONE
                    /\ (lo < hi /\ lo < v /\ v < hi) =>
                           /\ r * (hi - lo) <= (v - lo) * SCALE
                           /\ (v - lo) * SCALE < (r + 1) * (hi - lo)
                    /\ (lo = hi) => r = HALF

C2_Witness ==
    /\ kind = "minmax"
    /\ Returned
    /\ fit_called
    /\ \E f \in DOMAIN arg :
          /\ HasRange(f, 0, 2 * ONE)
          /\ arg[f] = ONE
          /\ out[f] = HALF

Known(f) == f \in DOMAIN preset \cup DOMAIN stats

(* C3: transform() on a fitted normalizer returns a mapping with exactly the
   keys of its input, and a feature absent from the parameters keeps its
   input value. *)
C3_KeysAndPassThrough ==
    Returned =>
        /\ DOMAIN out = DOMAIN arg
        /\ \A f \in DOMAIN arg : ~Known(f) => out[f] = arg[f]

C3_Witness ==
    /\ Returned
    /\ Known("a")
    /\ ~Known("b")
    /\ DOMAIN arg = {"a", "b"}
    /\ arg["b"] = 2 * ONE
    /\ out["b"] = 2 * ONE
    /\ out["a"] # arg["a"]

(* every value fit() saw for feature f is the same *)
ConstantIn(features_list, f) ==
    \A i, j \in 1..Len(features_list) :
        (f \in DOMAIN features_list[i] /\ f \in DOMAIN features_list[j])
            => features_list[i][f] = features_list[j][f]

C5_ZeroStdActsAsOne ==
    (kind = "zscore" /\ Returned) =>
        \A f \in DOMAIN arg \cap DOMAIN stats :
            stats[f].std = 0 => out[f] = arg[f] - stats[f].mean

----------------------------------------------------------------------------
(* Persistence of a ZScoreNormalizer: fit, then to_json(path), then
   from_json(path).  The object is not fitted again once the file is written. *)

(* get_stats(): one {"mean", "std", "count"} dict per feature *)
GetStats(st) ==
    [name \in DOMAIN st |->
        [mean |-> st[name].mean, std |-> st[name].std, count |-> st[name].count]]

(* lines 307-313: the preset_stats from_json builds from the loaded document *)
FromJsonPreset(data) ==
    LET statistics == Get(data, "statistics", EmptyMap)
    IN  [name \in DOMAIN statistics |->
            [mean |-> Get(statistics[name], "mean", 0),
             std |-> Get(statistics[name], "std", ONE),
             count |-> Get(statistics[name], "count", 0)]]

(* cls(preset_stats=preset_stats): the fields of the new instance *)
ZNew(preset_stats) ==
    [preset |-> preset_stats,
     stats |-> ZInitStats(preset_stats),
     is_fitted |-> Truthy(preset_stats)]

(* ZScoreNormalizer.to_json *)
ToJsonCall ==
    /\ kind = "zscore"
    /\ file' = File([statistics |-> GetStats(stats)])
    /\ op' = "to_json"
    /\ arg' = EmptyMap
    /\ ret' = Return(EmptyMap)
    /\ UNCHANGED <<kind, preset, stats, is_fitted, fit_called, threads, weights, vector, segments>>

(* ZScoreNormalizer.from_json *)
FromJsonCall ==
    /\ kind = "zscore"
    /\ op' = "from_json"
    /\ arg' = EmptyMap
    /\ ret' = IF file.exists THEN Return(ZNew(FromJsonPreset(file.data)))
              ELSE Raise("FileNotFoundError")
    /\ UNCHANGED <<kind, preset, stats, is_fitted, fit_called, file, threads, weights, vector, segments>>

InitJson ==
    /\ \E preset_stats \in PresetStats : ZInit(preset_stats)
    /\ Untouched

NextJson ==
    \/ ~file.exists /\ \E features_list \in FitBatches : ZFitCall(features_list)
    \/ ToJsonCall
    \/ FromJsonCall

SpecJson == InitJson /\ [][NextJson]_vars

Loaded == op = "from_json" /\ ret.raised = "none"

(* C7 as stated: the normalizer from_json returns for the file a fitted
   normalizer wrote is fitted, holds the same mean and std for every feature,
   and transforms every mapping as the saved one does. *)
C7_RoundTrip ==
    (Loaded /\ is_fitted) =>
        /\ ret.value.is_fitted
        /\ DOMAIN ret.value.stats = DOMAIN stats
        /\ \A f \in DOMAIN stats :
              /\ ret.value.stats[f].mean = stats[f].mean
              /\ ret.value.stats[f].std = stats[f].std
        /\ \A features \in Inputs :
              ZTransformOutcome(ret.value.is_fitted, ret.value.stats, features)
                  = ZTransformOutcome(is_fitted, stats, features)

----------------------------------------------------------------------------
(* One normalizer, constructed and possibly fitted, then shared by threads
   that call transform() on it.  A call is the guard on _is_fitted, one loop
   pass per item of the input dict, and the return. *)

Threads == {"t1", "t2"}

(* the dicts the threads pass: empty, or both features with one value *)
ConcInputs == {EmptyMap} \cup {[name \in Names |-> v] : v \in Vals}

Idle == [pc |-> "idle", features |-> EmptyMap, todo |-> {},
         normalized |-> EmptyMap, ret |-> Return(EmptyMap)]

(* the normalizer's _stats once the loop body has looked `name` up: the
   lookups are guarded by `in` and write nothing *)
StatsAfterLookup_Inserts(st, name) ==
    IF name \in DOMAIN st THEN st
    ELSE [n \in DOMAIN st \cup {name} |->
             IF n = name THEN ZScoreStats(0, ONE, 0) ELSE st[n]]

StatsAfterLookup(st, name) == st

(* normalized[name] as the loop body of the instance's class computes it *)
TransformItem(name, value) ==
    IF kind = "minmax" THEN MMTransformItem(preset, stats, name, value)
    ELSE ZTransformItem(stats, name, value)

(* lines 80-86 / 240-246: the guard, then normalized = {} *)
TransformBegin(t, features) ==
    /\ threads[t].pc \in {"idle", "done"}
    /\ threads' = [threads EXCEPT ![t] =
          IF ~is_fitted
          THEN [Idle EXCEPT !.pc = "done", !.features = features,
                            !.ret = Raise("RuntimeError")]
          ELSE [Idle EXCEPT !.pc = "loop", !.features = features,
                            !.todo = DOMAIN features]]
    /\ UNCHANGED <<kind, preset, stats, is_fitted, op, arg, ret, fit_called, file, weights, vector, segments>>

(* lines 87-108 / 247-256: one pass of the loop *)
TransformStep(t) ==
    /\ threads[t].pc = "loop"
    /\ \E name \in threads[t].todo :
          /\ threads' = [threads EXCEPT
                ![t].todo = @ \ {name},
                ![t].normalized =
                    [n \in DOMAIN @ \cup {name} |->
                        IF n = name THEN TransformItem(name, threads[t].features[name])
                        ELSE @[n]]]
          /\ stats' = StatsAfterLookup(stats, name)
    /\ UNCHANGED <<kind, preset, is_fitted, op, arg, ret, fit_called, file, weights, vector, segments>>

(* line 110 / 258: return normalized *)
TransformEnd(t) ==
    /\ threads[t].pc = "loop"
    /\ threads[t].todo = {}
    /\ threads' = [threads EXCEPT ![t].pc = "done",
                                  ![t].ret = Return(threads[t].normalized)]
    /\ UNCHANGED <<kind, preset, stats, is_fitted, op, arg, ret, fit_called, file, weights, vector, segments>>

(* the instance after __init__ and at most one fit() *)
InitConc ==
    /\ \/ \E preset_ranges \in PresetRanges :
             \/ MMInit(preset_ranges) /\ fit_called = FALSE
             \/ \E features_list \in FitBatches :
                   /\ kind = "minmax"
                   /\ preset = preset_ranges
                   /\ stats = MMFit(features_list)
                   /\ is_fitted = TRUE
                   /\ fit_called = TRUE
       \/ \E preset_stats \in PresetStats :
             \/ ZInit(preset_stats) /\ fit_called = FALSE
             \/ \E features_list \in FitBatches \ {<<>>} :
                   /\ kind = "zscore"
                   /\ preset = preset_stats
                   /\ stats = ZFit(features_list)
                   /\ is_fitted = TRUE
                   /\ fit_called = TRUE
    /\ op = "init"
    /\ arg = EmptyMap
    /\ ret = Return(EmptyMap)
    /\ file = NoFile
    /\ threads = [t \in Threads |-> Idle]
    /\ weights = EmptyMap
    /\ vector = EmptyMap
    /\ segments = <<>>

NextConc ==
    \E t \in Threads :
        \/ \E features \in ConcInputs : TransformBegin(t, features)
        \/ TransformStep(t)
        \/ TransformEnd(t)

SpecConc == InitConc /\ [][NextConc]_vars

(* C6: no step of a transform() call changes the parameters or the fitted
   flag, and a call that ran interleaved with others returns what the same
   call returns run alone on the instance. *)
C6_TransformFrozen ==
    [][(threads' # threads) =>
          /\ stats' = stats
          /\ preset' = preset
          /\ is_fitted' = is_fitted
          /\ \A t \in Threads :
                (threads[t].pc = "loop" /\ threads'[t].pc = "done")
                    => threads'[t].ret = TransformResult(threads[t].features)]_vars

(* both threads are inside the loop of a call on a fitted instance, one pass
   done each, and the instance knows one of the two features *)
C6_Witness ==
    /\ is_fitted
    /\ fit_called
    /\ Known("a")
    /\ ~Known("b")
    /\ \A t \in Threads :
          /\ threads[t].pc = "loop"
          /\ Cardinality(threads[t].todo) = 1
    /\ threads["t1"].todo # threads["t2"].todo

----------------------------------------------------------------------------
(* InterviewScorer: weights.py and scorer.py                               *)
(*                                                                         *)
(* A weight w is the integer w * WSCALE, so a raw trait score r (weight    *)
(* times feature value) is the integer r * RAW, and a final score p        *)
(* (0..100) is the integer p * WSCALE.                                     *)

WSCALE == 1000
RAW == WSCALE * SCALE

TRAIT_NAMES == <<"overall", "recommend_hiring", "excited", "engagement", "friendliness">>

Traits == {TRAIT_NAMES[i] : i \in DOMAIN TRAIT_NAMES}

(* the 28 feature names every trait of FEATURE_WEIGHTS lists *)
FeatureNames ==
    {"wpsec", "upsec", "fpsec", "wc", "uc",
     "i_ratio", "we_ratio", "they_ratio",
     "article_ratio", "verb_ratio", "adverb_ratio", "preposition_ratio",
     "conjunction_ratio", "number_ratio",
     "pos_emotion_ratio", "neg_emotion_ratio", "anxiety_ratio", "anger_ratio",
     "sadness_ratio",
     "cognitive_ratio", "inhibition_ratio", "perceptual_ratio",
     "nonfluency_ratio", "negation_ratio", "quantifier_ratio", "work_ratio",
     "relativity_ratio", "swear_ratio"}

(* one trait of FEATURE_WEIGHTS: four non-zero entries, 0.0 for the rest *)
TraitWeights(wpsec, upsec, fpsec, quantifier_ratio) ==
    [f \in FeatureNames |->
        CASE f = "wpsec" -> wpsec
          [] f = "upsec" -> upsec
          [] f = "fpsec" -> fpsec
          [] f = "quantifier_ratio" -> quantifier_ratio
          [] OTHER -> 0]

FEATURE_WEIGHTS ==
    [trait \in Traits |->
        CASE trait = "overall"          -> TraitWeights(110, 93, -86, 86)
          [] trait = "recommend_hiring" -> TraitWeights(139, 98, -130, 109)
          [] trait = "excited"          -> TraitWeights(123, 77, -69, 68)
          [] trait = "engagement"       -> TraitWeights(135, 97, -77, 75)
          [] trait = "friendliness"     -> TraitWeights(89, 73, -63, 61)]

(* upper end of each DEFAULT_FEATURE_RANGES entry; every lower end is 0 *)
DefaultRangeMax(f) ==
    CASE f = "wpsec" -> 500
      [] f = "upsec" -> 300
      [] f = "fpsec" -> 50
      [] f = "wc" -> 200000
      [] f = "uc" -> 50000
      [] f \in {"i_ratio", "adverb_ratio", "preposition_ratio",
                "cognitive_ratio", "work_ratio"} -> 15
      [] f \in {"we_ratio", "article_ratio", "pos_emotion_ratio",
                "perceptual_ratio", "nonfluency_ratio", "quantifier_ratio"} -> 10
      [] f \in {"they_ratio", "number_ratio", "neg_emotion_ratio",
                "inhibition_ratio"} -> 5
      [] f = "verb_ratio" -> 40
      [] f \in {"conjunction_ratio", "negation_ratio"} -> 8
      [] f = "anxiety_ratio" -> 3
      [] f \in {"anger_ratio", "sadness_ratio"} -> 2
      [] f = "relativity_ratio" -> 12
      [] f = "swear_ratio" -> 1

DEFAULT_FEATURE_RANGES == [f \in FeatureNames |-> <<0, DefaultRangeMax(f)>>]

(* for feature, value in normalized_features.items():                      *)
(*     if feature in weights: score += weights[feature] * value            *)
(* mutant: a feature without an entry is summed with weight 1.0 *)
RECURSIVE WeightedSum_MissingIsOne(_, _, _)
WeightedSum_MissingIsOne(trait_weights, normalized_features, todo) ==
    IF todo = {} THEN 0
    ELSE LET feature == CHOOSE f \in todo : TRUE
             rest == WeightedSum_MissingIsOne(trait_weights, normalized_features,
                                              todo \ {feature})
         IN IF feature \in DOMAIN trait_weights
            THEN rest + trait_weights[feature] * normalized_features[feature]
            ELSE rest + WSCALE * normalized_features[feature]

RECURSIVE WeightedSum(_, _, _)
WeightedSum(trait_weights, normalized_features, todo) ==
    IF todo = {} THEN 0
    ELSE LET feature == CHOOSE f \in todo : TRUE
             rest == WeightedSum(trait_weights, normalized_features, todo \ {feature})
         IN IF feature \in DOMAIN trait_weights
            THEN rest + trait_weights[feature] * normalized_features[feature]
            ELSE rest

(* mutant: the sum starts at 1.0 instead of 0.0 *)
ComputeTraitScore_StartsAtOne(w, normalized_features, trait) ==
    RAW + WeightedSum(Get(w, trait, EmptyMap), normalized_features,
                      DOMAIN normalized_features)

(* _compute_trait_score: weights = self.weights.get(trait, {}) *)
ComputeTraitScore(w, normalized_features, trait) ==
    WeightedSum(Get(w, trait, EmptyMap), normalized_features,
                DOMAIN normalized_features)

(* _scale_score.  math.exp and the float division are computed in fixed    *)
(* point: e^-y is the integer e^-y * ESCALE.                               *)
scale_factor == 3
ESCALE == SCALE * SCALE
Hundred == 100 * WSCALE

(* e^-1 *)
EInv == 3679

(* math.exp(x) raises OverflowError above x = 709.78271 (the largest       *)
(* double is e^709.78271..)                                                *)
ExpMax == 70978271

(* from x = -36.73681 down, exp(x) is at most 2^-53 and the double         *)
(* 1 + exp(x) is 1.0                                                       *)
OnePlusExpIsOne == -3673681

(* the series 1 - f + f^2/2! - f^3/3! + ..., f in units of 1/ESCALE *)
RECURSIVE ExpSeries(_, _, _, _)
ExpSeries(f, k, term, acc) ==
    IF term = 0 THEN acc
    ELSE LET t == (term * f) \div (k * ESCALE)
         IN ExpSeries(f, k + 1, t, IF k % 2 = 1 THEN acc - t ELSE acc + t)

(* val * e^-n *)
RECURSIVE ExpInt(_, _)
ExpInt(val, n) ==
    IF n = 0 \/ val = 0 THEN val ELSE ExpInt((val * EInv) \div ESCALE, n - 1)

(* e^-y for y >= 0 in units of 1/RAW: whole part by ExpInt, fraction by the series *)
ExpNeg(y) ==
    ExpInt(ExpSeries((y % RAW) \div (RAW \div ESCALE), 1, ESCALE, ESCALE), y \div RAW)

(* 1 / (1 + e^x) * 100 for x in units of 1/RAW, in units of 1/WSCALE *)
Sigmoid(x) ==
    LET en == ExpNeg(IF x < 0 THEN -x ELSE x)
    IN IF x <= 0
       THEN (Hundred * ESCALE) \div (ESCALE + en)
       ELSE (Hundred * en) \div (ESCALE + en)

(* mutant: the sign of the exponent is lost *)
ScaleArg_NoNegation(raw_score) == raw_score * scale_factor

(* -raw_score * scale_factor *)
ScaleArg(raw_score) == -raw_score * scale_factor

(* _scale_score: 1 / (1 + math.exp(-raw_score * scale_factor)) * 100.      *)
(* Between the two float limits the double result lies strictly between    *)
(* 0 and 100, also where the fixed-point quotient rounds to an end.        *)
ScaleScore(raw_score) ==
    LET x == ScaleArg(raw_score)
    IN IF x > ExpMax THEN Raise("OverflowError")
       ELSE IF x <= OnePlusExpIsOne THEN Return(Hundred)
       ELSE Return(Max(1, Min(Hundred - 1, Sigmoid(x))))

(* InterviewScorer.score on a scorer with the given weights and normalizer fields *)
ScoreOutcome(w, fitted, pr, st, features, normalize) ==
    LET normalized ==
            IF normalize THEN MMTransformOutcome(fitted, pr, st, features)
            ELSE Return(features)
        scaled ==
            [trait \in Traits |->
                ScaleScore(ComputeTraitScore(w, normalized.value, trait))]
    IN IF normalized.raised # "none" THEN normalized
       ELSE IF \E trait \in Traits : scaled[trait].raised # "none"
            THEN Raise("OverflowError")
            ELSE Return([trait \in Traits |-> scaled[trait].value])

----------------------------------------------------------------------------
(* Calls of score() on one scorer *)

MaxScoreVal == 4000   \* largest feature value handed to score(): 4000.0

(* feature names in the mappings scored: a positive weight, a negative     *)
(* weight, and a name outside the default tables                           *)
ScoreNames == {"wpsec", "fpsec", "zz"}

(* feature values: 0.0, 0.5, 200.0 and MaxScoreVal *)
ScoreVals == {0, HALF, 200 * SCALE, MaxScoreVal * SCALE}

(* the two mappings test_positive_features_increase_score scores:         *)
(* pos_emotion_ratio 0.1 and 0.9, nothing else present                     *)
LowPosEmotion == "pos_emotion_ratio" :> (SCALE \div 10)
HighPosEmotion == "pos_emotion_ratio" :> (9 * SCALE) \div 10

ScoreInputs == Maps(ScoreNames, ScoreVals) \cup {LowPosEmotion, HighPosEmotion}

(* a custom_weights argument: one trait, one of its features outside the   *)
(* default table                                                           *)
CustomWeights == "overall" :> ("zz" :> 500 @@ "wpsec" :> -200)

(* custom_weights arguments: None, or CustomWeights *)
WeightArgs == {EmptyMap, CustomWeights}

(* normalizer arguments: None, MinMaxNormalizer(), or a normalizer with a  *)
(* preset range for "zz"                                                   *)
NormalizerArgs ==
    {[given |-> FALSE, preset_ranges |-> EmptyMap],
     [given |-> TRUE, preset_ranges |-> EmptyMap],
     [given |-> TRUE, preset_ranges |-> "zz" :> <<0, 2 * ONE>>]}

(* InterviewScorer.__init__(normalizer, custom_weights); preset, stats and *)
(* is_fitted are the fields of self.normalizer                             *)
ScorerInit(normalizer, custom_weights) ==
    /\ kind = "scorer"
    /\ preset = IF normalizer.given THEN normalizer.preset_ranges
                ELSE DEFAULT_FEATURE_RANGES
    /\ stats = EmptyMap
    /\ is_fitted = Truthy(preset)
    /\ weights = IF Truthy(custom_weights) THEN custom_weights ELSE FEATURE_WEIGHTS
    /\ vector = EmptyMap
    /\ segments = <<>>

InitScore ==
    /\ \E normalizer \in NormalizerArgs, custom_weights \in WeightArgs :
            ScorerInit(normalizer, custom_weights)
    /\ op = "init"
    /\ arg = EmptyMap
    /\ ret = Return(EmptyMap)
    /\ fit_called = FALSE
    /\ file = NoFile
    /\ threads = EmptyMap

(* InterviewScorer.score(features, normalize) *)
ScoreCall(features, normalize) ==
    /\ kind = "scorer"
    /\ op' = "score"
    /\ arg' = [features |-> features, normalize |-> normalize]
    /\ ret' = ScoreOutcome(weights, is_fitted, preset, stats, features, normalize)
    /\ UNCHANGED <<kind, preset, stats, is_fitted, fit_called, file, threads, weights, vector, segments>>

NextScore ==
    \E features \in ScoreInputs, normalize \in BOOLEAN : ScoreCall(features, normalize)

SpecScore == InitScore /\ [][NextScore]_vars

(* the last call was score() and it returned an InterviewScore *)
Scored == op = "score" /\ ret.raised = "none"

(* the normalized mapping the last score() call worked on *)
Normalized ==
    IF arg.normalize THEN MMTransformOutcome(is_fitted, preset, stats, arg.features)
    ELSE Return(arg.features)

(* C8: when every normalized feature value of the mapping scored is 0, the *)
(* call returns, every trait's raw score is 0 and every trait's final      *)
(* score is exactly 50.0.                                                  *)
C8_AllZeroGivesFifty ==
    (/\ op = "score"
     /\ Normalized.raised = "none"
     /\ \A f \in DOMAIN Normalized.value : Normalized.value[f] = 0)
    => /\ ret.raised = "none"
       /\ \A trait \in Traits :
            /\ ComputeTraitScore(weights, Normalized.value, trait) = 0
            /\ ret.value[trait] = Hundred \div 2

C8_Witness ==
    /\ Scored
    /\ weights = FEATURE_WEIGHTS
    /\ DOMAIN arg.features = ScoreNames
    /\ \A f \in ScoreNames : Normalized.value[f] = 0
    /\ \A trait \in Traits : ret.value[trait] = Hundred \div 2

(* C9: every score() call on a finite mapping returns, and every trait     *)
(* score it returns is strictly between 0 and 100.                         *)
C9_ScoresStrictlyInside ==
    op = "score" =>
        /\ ret.raised # "OverflowError"
        /\ ret.raised = "none" =>
              \A trait \in Traits : 0 < ret.value[trait] /\ ret.value[trait] < Hundred

(* C10: raising one feature value of the mapping scored, the others held   *)
(* fixed, never lowers the score of a trait in which the feature has a     *)
(* positive weight and never raises the score of a trait in which it has a *)
(* negative weight.                                                        *)
C10_Monotone ==
    Scored =>
        \A f \in DOMAIN arg.features : \A v \in ScoreVals :
            LET raised == ScoreOutcome(weights, is_fitted, preset, stats,
                                       [arg.features EXCEPT ![f] = v], arg.normalize)
            IN (v > arg.features[f] /\ raised.raised = "none") =>
                  \A trait \in Traits :
                      LET weight == Get(Get(weights, trait, EmptyMap), f, 0)
                      IN /\ weight > 0 => raised.value[trait] >= ret.value[trait]
                         /\ weight < 0 => raised.value[trait] <= ret.value[trait]

C10_Witness ==
    /\ Scored
    /\ ~arg.normalize
    /\ weights = FEATURE_WEIGHTS
    /\ DOMAIN arg.features = ScoreNames
    /\ arg.features["fpsec"] = 0
    /\ arg.features["wpsec"] = 0
    /\ LET more_fpsec == ScoreOutcome(weights, is_fitted, preset, stats,
                                      [arg.features EXCEPT !["fpsec"] = HALF], FALSE)
           more_wpsec == ScoreOutcome(weights, is_fitted, preset, stats,
                                      [arg.features EXCEPT !["wpsec"] = HALF], FALSE)
       IN /\ more_fpsec.value["overall"] < ret.value["overall"]
          /\ more_wpsec.value["overall"] > ret.value["overall"]

(* C11: with the default weight table and normalize=False, the mapping     *)
(* with pos_emotion_ratio 0.9 gets a strictly higher excited score than    *)
(* the mapping with pos_emotion_ratio 0.1.                                 *)
C11_PosEmotionRaisesExcited ==
    (/\ Scored
     /\ weights = FEATURE_WEIGHTS
     /\ arg = [features |-> HighPosEmotion, normalize |-> FALSE])
    => LET low_score == ScoreOutcome(weights, is_fitted, preset, stats,
                                     LowPosEmotion, FALSE)
       IN /\ low_score.raised = "none"
          /\ ret.value["excited"] > low_score.value["excited"]

----------------------------------------------------------------------------
(* batch_score *)

(* mutant: the normalize argument is not handed on to score() *)
BatchScoreOutcome_DropsNormalize(w, fitted, pr, st, features_list, normalize) ==
    LET each == [i \in DOMAIN features_list |->
                    ScoreOutcome(w, fitted, pr, st, features_list[i], TRUE)]
        raising == {i \in DOMAIN features_list : each[i].raised # "none"}
    IN IF raising = {}
       THEN Return([i \in DOMAIN features_list |-> each[i].value])
       ELSE each[CHOOSE i \in raising : \A j \in raising : i <= j]

(* InterviewScorer.batch_score: [self.score(features, normalize=normalize) *)
(* for features in features_list]; the first score() that raises ends it   *)
BatchScoreOutcome(w, fitted, pr, st, features_list, normalize) ==
    LET each == [i \in DOMAIN features_list |->
                    ScoreOutcome(w, fitted, pr, st, features_list[i], normalize)]
        raising == {i \in DOMAIN features_list : each[i].raised # "none"}
    IN IF raising = {}
       THEN Return([i \in DOMAIN features_list |-> each[i].value])
       ELSE each[CHOOSE i \in raising : \A j \in raising : i <= j]

(* the mappings put into the lists: empty, one feature, two features, and  *)
(* one on which score() raises OverflowError                               *)
BatchInputs ==
    {EmptyMap,
     "wpsec" :> HALF,
     "wpsec" :> HALF @@ "fpsec" :> HALF,
     "fpsec" :> MaxScoreVal * SCALE}

(* features_list arguments: lists of up to MaxBatch mappings *)
BatchLists == UNION {[1..n -> BatchInputs] : n \in 0..MaxBatch}

(* InterviewScorer.batch_score(features_list, normalize) *)
BatchScoreCall(features_list, normalize) ==
    /\ kind = "scorer"
    /\ op' = "batch_score"
    /\ arg' = [features_list |-> features_list, normalize |-> normalize]
    /\ ret' = BatchScoreOutcome(weights, is_fitted, preset, stats,
                                features_list, normalize)
    /\ UNCHANGED <<kind, preset, stats, is_fitted, fit_called, file, threads, weights, vector, segments>>

NextBatch ==
    \/ \E features \in BatchInputs, normalize \in BOOLEAN :
            ScoreCall(features, normalize)
    \/ \E features_list \in BatchLists, normalize \in BOOLEAN :
            BatchScoreCall(features_list, normalize)

SpecBatch == InitScore /\ [][NextBatch]_vars

(* what score(L[i], normalize) gives now, for the list L of the last       *)
(* batch_score call                                                        *)
ScoreOfElement(i) ==
    ScoreOutcome(weights, is_fitted, preset, stats,
                 arg.features_list[i], arg.normalize)

(* C12: after any earlier calls, batch_score(L, normalize) returns a list  *)
(* as long as L whose i-th element is what score(L[i], normalize) returns, *)
(* so equal elements of L get equal scores; it raises only when one of     *)
(* these score() calls raises.                                             *)
C12_BatchIsElementwise ==
    op = "batch_score" =>
        IF \A i \in DOMAIN arg.features_list : ScoreOfElement(i).raised = "none"
        THEN /\ ret.raised = "none"
             /\ DOMAIN ret.value = DOMAIN arg.features_list
             /\ \A i \in DOMAIN arg.features_list :
                    ret.value[i] = ScoreOfElement(i).value
             /\ \A i, j \in DOMAIN arg.features_list :
                    arg.features_list[i] = arg.features_list[j]
                        => ret.value[i] = ret.value[j]
        ELSE ret.raised # "none"

C12_Witness ==
    /\ op = "batch_score"
    /\ ret.raised = "none"
    /\ Len(arg.features_list) = 2
    /\ ~arg.normalize
    /\ ret.value[1] # ret.value[2]
    /\ ret.value[2]["overall"] # Hundred \div 2

----------------------------------------------------------------------------
(* score_with_breakdown.  The order of a dict matters here (the sort is    *)
(* stable), so the features argument is the sequence of its items, each a  *)
(* pair <<name, value>>, names distinct.                                   *)

Abs(x) == IF x < 0 THEN -x ELSE x

(* the mapping with the given items *)
ItemsMap(items) ==
    [name \in {items[i][1] : i \in DOMAIN items} |->
        LET i == CHOOSE j \in DOMAIN items : items[j][1] = name IN items[i][2]]

(* [:5] *)
TopCount == 5

(* mutant: the sort key is the contribution, not its absolute value *)
SortsBefore_Signed(a, b) == a[2].contribution >= b[2].contribution

(* sorted(.., key=abs(contribution), reverse=True) keeps a before a later  *)
(* b when a's key is not smaller                                           *)
SortsBefore(a, b) == Abs(a[2].contribution) >= Abs(b[2].contribution)

(* b put into the sorted sequence s, behind every element that sorts before it *)
RECURSIVE SortedInsert(_, _)
SortedInsert(s, b) ==
    IF s = <<>> THEN <<b>>
    ELSE IF SortsBefore(Head(s), b) THEN <<Head(s)>> \o SortedInsert(Tail(s), b)
    ELSE <<b>> \o s

(* sorted(..): the stable sort of the first n elements of the sequence s *)
RECURSIVE SortedPrefix(_, _)
SortedPrefix(s, n) ==
    IF n = 0 THEN <<>> ELSE SortedInsert(SortedPrefix(s, n - 1), s[n])

(* s[:TopCount] *)
Top(s) == SubSeq(s, 1, Min(TopCount, Len(s)))

(* the contributions dict before sorting: one item per normalized feature  *)
(* that has an overall weight, in the order of the normalized mapping      *)
Contributions(overall_weights, items, normalized) ==
    LET HasWeight(item) == item[1] \in DOMAIN overall_weights
        weighted == SelectSeq(items, HasWeight)
    IN [i \in DOMAIN weighted |->
            LET feature == weighted[i][1]
            IN <<feature,
                 [normalized_value |-> normalized[feature],
                  weight |-> overall_weights[feature],
                  contribution |-> overall_weights[feature] * normalized[feature]]>>]

(* InterviewScorer.score_with_breakdown on a scorer with the given fields *)
BreakdownOutcome(w, fitted, pr, st, items, normalize) ==
    LET features == ItemsMap(items)
        normalized ==
            IF normalize THEN MMTransformOutcome(fitted, pr, st, features)
            ELSE Return(features)
        score == ScoreOutcome(w, fitted, pr, st, features, normalize)
        contributions ==
            Contributions(Get(w, "overall", EmptyMap), items, normalized.value)
        sorted_contributions == SortedPrefix(contributions, Len(contributions))
        IsPositive(item) == item[2].contribution > 0
        IsNegative(item) == item[2].contribution < 0
    IN IF normalized.raised # "none" THEN normalized
       ELSE IF score.raised # "none" THEN score
       ELSE Return([scores |-> score.value,
                    normalized_features |-> normalized.value,
                    contributions |-> sorted_contributions,
                    top_positive |-> Top(SelectSeq(sorted_contributions, IsPositive)),
                    top_negative |-> Top(SelectSeq(sorted_contributions, IsNegative))])

(* a custom_weights argument with six positive overall weights, two of     *)
(* each size, and a zero one                                               *)
BreakdownWeights ==
    "overall" :> [wpsec |-> 300, upsec |-> 200, quantifier_ratio |-> 100,
                  we_ratio |-> 300, work_ratio |-> 200, adverb_ratio |-> 100,
                  wc |-> 0]

(* the features whose value differs between the mappings broken down *)
BreakdownNames ==
    <<"wpsec", "upsec", "quantifier_ratio", "we_ratio", "work_ratio", "adverb_ratio">>

(* which of BreakdownNames get a negative value: the first k, the last k, *)
(* or every other one                                                      *)
NegativeSets ==
    {1..k : k \in 0..Len(BreakdownNames)}
        \cup {k..Len(BreakdownNames) : k \in 2..Len(BreakdownNames)}
        \cup {{1, 3, 5}, {2, 4, 6}}

(* the items of a mapping giving each of BreakdownNames the value -1.0 or  *)
(* 1.0, followed by wc (a zero weight) and zz (no weight)                  *)
BreakdownItems(negative) ==
    [i \in DOMAIN BreakdownNames |->
        <<BreakdownNames[i], IF i \in negative THEN -ONE ELSE ONE>>]
        \o << <<"wc", ONE>>, <<"zz", ONE>> >>

Reversed(s) == [i \in DOMAIN s |-> s[Len(s) + 1 - i]]

(* features arguments: the mappings above in both item orders, the empty   *)
(* mapping, a small one, and one on which score() raises OverflowError     *)
BreakdownInputs ==
    LET full == {BreakdownItems(negative) : negative \in NegativeSets}
    IN full \cup {Reversed(items) : items \in full}
            \cup {<<>>,
                  << <<"fpsec", HALF>>, <<"wpsec", HALF>> >>,
                  << <<"fpsec", MaxScoreVal * SCALE>> >>}

(* InterviewScorer.__init__ with one of the normalizer arguments and       *)
(* custom_weights None or BreakdownWeights                                 *)
InitBreakdown ==
    /\ \E normalizer \in NormalizerArgs, custom_weights \in {EmptyMap, BreakdownWeights} :
            ScorerInit(normalizer, custom_weights)
    /\ op = "init"
    /\ arg = EmptyMap
    /\ ret = Return(EmptyMap)
    /\ fit_called = FALSE
    /\ file = NoFile
    /\ threads = EmptyMap

(* InterviewScorer.score_with_breakdown(features, normalize) *)
BreakdownCall(items, normalize) ==
    /\ kind = "scorer"
    /\ op' = "score_with_breakdown"
    /\ arg' = [features |-> items, normalize |-> normalize]
    /\ ret' = BreakdownOutcome(weights, is_fitted, preset, stats, items, normalize)
    /\ UNCHANGED <<kind, preset, stats, is_fitted, fit_called, file, threads, weights, vector, segments>>

NextBreakdown ==
    \E items \in BreakdownInputs, normalize \in BOOLEAN : BreakdownCall(items, normalize)

SpecBreakdown == InitBreakdown /\ [][NextBreakdown]_vars

(* the normalized mapping the last score_with_breakdown() call worked on *)
BreakdownNormalized ==
    IF arg.normalize
    THEN MMTransformOutcome(is_fitted, preset, stats, ItemsMap(arg.features))
    ELSE Return(ItemsMap(arg.features))

(* s, a sequence of contribution items, holds the at most TopCount largest *)
(* items of c whose contribution times sign is positive, largest first     *)
IsTopOf(s, c, sign) ==
    LET Size(item) == sign * item[2].contribution
        wanted == {i \in DOMAIN c : Size(c[i]) > 0}
    IN /\ Len(s) = Min(TopCount, Cardinality(wanted))
       /\ \A i \in DOMAIN s : \E j \in wanted : s[i] = c[j]
       /\ \A i, j \in DOMAIN s : i < j =>
              /\ s[i][1] # s[j][1]
              /\ Size(s[i]) >= Size(s[j])
       /\ \A j \in wanted :
              (\A i \in DOMAIN s : s[i][1] # c[j][1])
                  => \A i \in DOMAIN s : Size(s[i]) >= Size(c[j])

(* C13: score_with_breakdown returns when score() does; its contributions  *)
(* are, for the overall trait, weight x normalized value of each feature   *)
(* that has an overall weight, in order of non-increasing absolute value;  *)
(* top_positive holds the at most 5 largest positive ones and top_negative *)
(* the at most 5 largest-magnitude negative ones, with no feature in both  *)
(* and no zero contribution in either; scores are those of score().        *)
C13_Breakdown ==
    op = "score_with_breakdown" =>
        LET score == ScoreOutcome(weights, is_fitted, preset, stats,
                                  ItemsMap(arg.features), arg.normalize)
            overall_weights == Get(weights, "overall", EmptyMap)
            normalized == BreakdownNormalized.value
            c == ret.value.contributions
            listed == {c[i][1] : i \in DOMAIN c}
        IN /\ ret.raised = "none" <=> score.raised = "none"
           /\ ret.raised = "none" =>
                /\ ret.value.scores = score.value
                /\ listed = DOMAIN normalized \cap DOMAIN overall_weights
                /\ Len(c) = Cardinality(listed)
                /\ \A i \in DOMAIN c :
                       c[i][2] = [normalized_value |-> normalized[c[i][1]],
                                  weight |-> overall_weights[c[i][1]],
                                  contribution |->
                                      overall_weights[c[i][1]] * normalized[c[i][1]]]
                /\ \A i, j \in DOMAIN c :
                       i < j => Abs(c[i][2].contribution) >= Abs(c[j][2].contribution)
                /\ IsTopOf(ret.value.top_positive, c, 1)
                /\ IsTopOf(ret.value.top_negative, c, -1)
                /\ \A i \in DOMAIN ret.value.top_positive :
                   \A j \in DOMAIN ret.value.top_negative :
                       ret.value.top_positive[i][1] # ret.value.top_negative[j][1]

C13_Witness ==
    /\ op = "score_with_breakdown"
    /\ ret.raised = "none"
    /\ Len(ret.value.contributions) = 7
    /\ ret.value.contributions[6][2].contribution > 0
    /\ ret.value.contributions[7][2].contribution = 0
    /\ Len(ret.value.top_positive) = TopCount
    /\ ret.value.top_negative = <<>>
    /\ ret.value.scores["overall"] > Hundred \div 2

----------------------------------------------------------------------------
(* weights.py: get_trait_weights and get_top_features *)

MaxTop == 50    \* get_top_features is called with n in -MaxTop .. MaxTop

(* FEATURE_IMPORTANCE.items(), in the order of the dict *)
FEATURE_IMPORTANCE ==
    << <<"wpsec", 10>>, <<"upsec", 10>>, <<"fpsec", 10>>, <<"quantifier_ratio", 10>> >>

(* b put into the sequence s sorted by importance, largest first, behind   *)
(* every element that is not less important                                *)
RECURSIVE ImportanceInsert(_, _)
ImportanceInsert(s, b) ==
    IF s = <<>> THEN <<b>>
    ELSE IF Head(s)[2] >= b[2] THEN <<Head(s)>> \o ImportanceInsert(Tail(s), b)
    ELSE <<b>> \o s

(* sorted(.., key=lambda x: x[1], reverse=True) of the first n items of s *)
RECURSIVE SortedByImportance(_, _)
SortedByImportance(s, n) ==
    IF n = 0 THEN <<>> ELSE ImportanceInsert(SortedByImportance(s, n - 1), s[n])

(* s[:n]: the first n elements, all of s when it is shorter; a negative n  *)
(* drops the last -n elements                                              *)
Slice(s, n) ==
    IF n >= 0 THEN SubSeq(s, 1, Min(n, Len(s)))
    ELSE SubSeq(s, 1, Max(Len(s) + n, 0))

(* get_top_features(n) *)
GetTopFeatures(n) ==
    LET sorted_features == SortedByImportance(FEATURE_IMPORTANCE, Len(FEATURE_IMPORTANCE))
        top == Slice(sorted_features, n)
    IN Return([i \in DOMAIN top |-> top[i][1]])

(* get_trait_weights(trait) *)
GetTraitWeights(trait) ==
    IF trait \notin DOMAIN FEATURE_WEIGHTS THEN Raise("ValueError")
    ELSE Return(FEATURE_WEIGHTS[trait])

(* trait arguments: the five traits and two other strings *)
TraitArgs == Traits \cup {"invalid_trait", ""}

(* no object is involved: the module's tables are constants *)
InitWeights ==
    /\ kind = "weights"
    /\ preset = EmptyMap
    /\ stats = EmptyMap
    /\ is_fitted = FALSE
    /\ weights = FEATURE_WEIGHTS
    /\ vector = EmptyMap
    /\ segments = <<>>
    /\ op = "init"
    /\ arg = EmptyMap
    /\ ret = Return(EmptyMap)
    /\ fit_called = FALSE
    /\ file = NoFile
    /\ threads = EmptyMap

GetTopFeaturesCall(n) ==
    /\ kind = "weights"
    /\ op' = "get_top_features"
    /\ arg' = [n |-> n]
    /\ ret' = GetTopFeatures(n)
    /\ UNCHANGED <<kind, preset, stats, is_fitted, fit_called, file, threads, weights, vector, segments>>

GetTraitWeightsCall(trait) ==
    /\ kind = "weights"
    /\ op' = "get_trait_weights"
    /\ arg' = [trait |-> trait]
    /\ ret' = GetTraitWeights(trait)
    /\ UNCHANGED <<kind, preset, stats, is_fitted, fit_called, file, threads, weights, vector, segments>>

NextWeights ==
    \/ \E n \in -MaxTop..MaxTop : GetTopFeaturesCall(n)
    \/ \E trait \in TraitArgs : GetTraitWeightsCall(trait)

SpecWeights == InitWeights /\ [][NextWeights]_vars

(* the importance of a feature name *)
Importance(feature) ==
    LET i == CHOOSE j \in DOMAIN FEATURE_IMPORTANCE : FEATURE_IMPORTANCE[j][1] = feature
    IN FEATURE_IMPORTANCE[i][2]

(* C14: for every n from 0 to 5, get_top_features(n) returns exactly n     *)
(* feature names, in order of non-increasing importance.                   *)
C14_TopFeaturesCount ==
    (op = "get_top_features" /\ arg.n \in 0..5) =>
        /\ ret.raised = "none"
        /\ Len(ret.value) = arg.n
        /\ \A i, j \in DOMAIN ret.value :
               i < j => Importance(ret.value[i]) >= Importance(ret.value[j])

-----------------------------------------------------------------------------
(* Feature extraction: tokenizer, dictionaries and the six extractors       *)

(* A str is the sequence of its characters.  A Hangul syllable is one       *)
(* character, written here by its romanized jamo (initial, medial, final);  *)
(* a bare jamo is written with a leading "-".                               *)

(* str.startswith, str.endswith, `p in s`, word[:2] *)
StartsWith(s, p) == Len(p) <= Len(s) /\ SubSeq(s, 1, Len(p)) = p
EndsWith(s, p) == Len(p) <= Len(s) /\ SubSeq(s, Len(s) - Len(p) + 1, Len(s)) = p
Contains(s, p) == \E i \in 1..(Len(s) - Len(p) + 1) : SubSeq(s, i, i + Len(p) - 1) = p
FirstTwo(word) == SubSeq(word, 1, Min(2, Len(word)))

(* Token(form, tag) *)
Token(form, tag) == [form |-> form, tag |-> tag]

EXCLUDED_TAGS == {"SF", "SP", "SS", "SE", "SO", "SW", "SH", "SL", "SN"}

POS_TO_LIWC ==
    [article |-> {"MM"},
     preposition |-> {"JKB"},
     conjunction |-> {"JC"},
     adverb |-> {"MAG", "MAJ"},
     pronoun |-> {"NP"},
     verb |-> {"VV", "VA", "VX", "VCP", "VCN"},
     number |-> {"SN", "NR"},
     noun |-> {"NNG", "NNP", "NNB"},
     interjection |-> {"IC"}]

(* PRONOUNS_I_LEMMAS, 4 entries *)
PRONOUNS_I_LEMMAS == {
    <<"na">>, <<"jeo">>, <<"nae">>, <<"je">>
    }

(* PRONOUNS_WE_LEMMAS, 2 entries *)
PRONOUNS_WE_LEMMAS == {
    <<"u", "ri">>, <<"jeo", "hui">>
    }

(* PRONOUNS_THEY_LEMMAS, 4 entries *)
PRONOUNS_THEY_LEMMAS == {
    <<"geu", "deul">>, <<"geu", "nyeo", "deul">>, <<"jeo", "deul">>,
    <<"i", "deul">>
    }

(* POSITIVE_EMOTION, 68 entries *)
POSITIVE_EMOTION == {
    <<"joh", "da">>, <<"joh", "eun">>, <<"joh", "a">>, <<"joh", "go">>,
    <<"haeng", "bog">>, <<"haeng", "bog", "ha", "da">>,
    <<"haeng", "bog", "han">>, <<"gi", "ppeu", "da">>, <<"gi", "ppeun">>,
    <<"gi", "ppeo">>, <<"jeul", "geob", "da">>, <<"jeul", "geo", "un">>,
    <<"jeul", "geo", "wo">>, <<"sa", "rang">>, <<"sa", "rang", "ha", "da">>,
    <<"sa", "rang", "seu", "reob", "da">>, <<"gam", "sa">>,
    <<"gam", "sa", "ha", "da">>, <<"go", "mab", "da">>, <<"go", "ma", "un">>,
    <<"sin", "na", "da">>, <<"sin", "na", "neun">>, <<"sin", "nass", "da">>,
    <<"heung", "mi", "rob", "da">>, <<"heung", "mi", "ro", "un">>,
    <<"jae", "mi", "iss", "da">>, <<"jae", "mi", "iss", "neun">>,
    <<"gi", "dae">>, <<"gi", "dae", "ha", "da">>,
    <<"gi", "dae", "doe", "da">>, <<"seol", "re", "da">>,
    <<"seol", "re", "neun">>, <<"man", "jog">>, <<"man", "jog", "ha", "da">>,
    <<"man", "jog", "seu", "reob", "da">>, <<"seong", "gong">>,
    <<"seong", "gong", "ha", "da">>, <<"seong", "gong", "jeog">>,
    <<"ja", "rang">>, <<"ja", "rang", "seu", "reob", "da">>,
    <<"ja", "rang", "seu", "reo", "un">>, <<"ppu", "deus", "ha", "da">>,
    <<"ppu", "deus", "han">>, <<"bo", "ram">>, <<"bo", "ram", "iss", "da">>,
    <<"bo", "ram", "chan">>, <<"hul", "ryung", "ha", "da">>,
    <<"hul", "ryung", "han">>, <<"meos", "ji", "da">>, <<"meos", "jin">>,
    <<"dae", "dan", "ha", "da">>, <<"dae", "dan", "han">>, <<"choe", "go">>,
    <<"choe", "go", "ui">>, <<"wan", "byeog", "ha", "da">>,
    <<"wan", "byeog", "han">>, <<"a", "reum", "dab", "da">>,
    <<"a", "reum", "da", "un">>, <<"tta", "tteus", "ha", "da">>,
    <<"tta", "tteus", "han">>, <<"chin", "jeol", "ha", "da">>,
    <<"chin", "jeol", "han">>, <<"da", "jeong", "ha", "da">>,
    <<"da", "jeong", "han">>, <<"ban", "gab", "da">>, <<"ban", "ga", "un">>,
    <<"hwan", "yeong">>, <<"hwan", "yeong", "ha", "da">>
    }

(* NEGATIVE_EMOTION, 36 entries *)
NEGATIVE_EMOTION == {
    <<"silh", "da">>, <<"silh", "eun">>, <<"silh", "eo">>,
    <<"na", "ppeu", "da">>, <<"na", "ppeun">>, <<"seul", "peu", "da">>,
    <<"seul", "peun">>, <<"seul", "peo">>, <<"him", "deul", "da">>,
    <<"him", "deun">>, <<"eo", "ryeob", "da">>, <<"eo", "ryeo", "un">>,
    <<"bul", "pyeon", "ha", "da">>, <<"bul", "pyeon", "han">>,
    <<"goe", "rob", "da">>, <<"goe", "ro", "un">>, <<"go", "tong">>,
    <<"go", "tong", "seu", "reob", "da">>, <<"a", "peu", "da">>,
    <<"a", "peun">>, <<"bul", "man">>, <<"bul", "man", "jog">>,
    <<"sil", "mang">>, <<"sil", "mang", "ha", "da">>,
    <<"sil", "mang", "seu", "reob", "da">>, <<"hu", "hoe">>,
    <<"hu", "hoe", "ha", "da">>, <<"kkeum", "jjig", "ha", "da">>,
    <<"kkeum", "jjig", "han">>, <<"choe", "ag">>, <<"choe", "ag", "ui">>,
    <<"ji", "ru", "ha", "da">>, <<"ji", "ru", "han">>, <<"jja", "jeung">>,
    <<"jja", "jeung", "na", "da">>, <<"jja", "jeung", "seu", "reob", "da">>
    }

(* ANXIETY, 33 entries *)
ANXIETY == {
    <<"bul", "an">>, <<"bul", "an", "ha", "da">>, <<"bul", "an", "han">>,
    <<"geog", "jeong">>, <<"geog", "jeong", "ha", "da">>,
    <<"geog", "jeong", "doe", "da">>,
    <<"geog", "jeong", "seu", "reob", "da">>, <<"gin", "jang">>,
    <<"gin", "jang", "ha", "da">>, <<"gin", "jang", "doe", "da">>,
    <<"cho", "jo">>, <<"cho", "jo", "ha", "da">>, <<"cho", "jo", "han">>,
    <<"du", "ryeob", "da">>, <<"du", "ryeo", "un">>, <<"du", "ryeo", "um">>,
    <<"mu", "seob", "da">>, <<"mu", "seo", "un">>, <<"geob", "na", "da">>,
    <<"geob", "na", "neun">>, <<"seu", "teu", "re", "seu">>,
    <<"seu", "teu", "re", "seu", "bad", "da">>, <<"ab", "bag">>,
    <<"ab", "bag", "gam">>, <<"bu", "dam">>, <<"bu", "dam", "doe", "da">>,
    <<"bu", "dam", "seu", "reob", "da">>, <<"mang", "seol", "i", "da">>,
    <<"mang", "seol", "yeo", "ji", "da">>, <<"jo", "ma", "jo", "ma">>,
    <<"jo", "ma", "jo", "ma", "ha", "da">>, <<"an", "jeol", "bu", "jeol">>,
    <<"an", "jeol", "bu", "jeol", "ha", "da">>
    }

(* ANGER, 29 entries *)
ANGER == {
    <<"hwa", "na", "da">>, <<"hwa", "nan">>, <<"hwa", "ga", " ", "na", "da">>,
    <<"bun", "no">>, <<"bun", "no", "ha", "da">>, <<"jja", "jeung">>,
    <<"jja", "jeung", "na", "da">>, <<"jja", "jeung", "na", "neun">>,
    <<"yeol", "bad", "da">>, <<"yeol", "bad", "neun">>,
    <<"dab", "dab", "ha", "da">>, <<"dab", "dab", "han">>,
    <<"eog", "ul", "ha", "da">>, <<"eog", "ul", "han">>,
    <<"sog", "sang", "ha", "da">>, <<"sog", "sang", "han">>,
    <<"mi", "wo", "ha", "da">>, <<"mi", "un">>, <<"silh", "eo", "ha", "da">>,
    <<"jeung", "o">>, <<"jeung", "o", "ha", "da">>, <<"won", "mang">>,
    <<"won", "mang", "ha", "da">>, <<"sin", "gyeong", "jil">>,
    <<"sin", "gyeong", "jil", "na", "da">>,
    <<"jja", "jeung", "seu", "reob", "da">>, <<"bul", "kwae", "ha", "da">>,
    <<"bul", "kwae", "han">>, <<"gi", "bun", "na", "ppeu", "da">>
    }

(* SADNESS, 34 entries *)
SADNESS == {
    <<"seul", "peu", "da">>, <<"seul", "peun">>, <<"seul", "peo">>,
    <<"seul", "peum">>, <<"u", "ul">>, <<"u", "ul", "ha", "da">>,
    <<"u", "ul", "han">>, <<"sseul", "sseul", "ha", "da">>,
    <<"sseul", "sseul", "han">>, <<"oe", "rob", "da">>, <<"oe", "ro", "un">>,
    <<"oe", "ro", "um">>, <<"geu", "rib", "da">>, <<"geu", "ri", "un">>,
    <<"a", "swib", "da">>, <<"a", "swi", "un">>,
    <<"heo", "jeon", "ha", "da">>, <<"heo", "jeon", "han">>,
    <<"jeol", "mang">>, <<"jeol", "mang", "jeog">>,
    <<"jeol", "mang", "ha", "da">>, <<"nag", "sim">>,
    <<"nag", "sim", "ha", "da">>, <<"jwa", "jeol">>,
    <<"jwa", "jeol", "ha", "da">>, <<"ul", "da">>, <<"nun", "mul">>,
    <<"nun", "mul", "na", "da">>, <<"seo", "reob", "da">>,
    <<"seo", "reo", "un">>, <<"sseul", "sseul">>, <<"go", "dog">>,
    <<"go", "dog", "ha", "da">>, <<"go", "dog", "han">>
    }

(* COGNITIVE, 69 entries *)
COGNITIVE == {
    <<"saeng", "gag">>, <<"saeng", "gag", "ha", "da">>,
    <<"saeng", "gag", "doe", "da">>, <<"sa", "go">>,
    <<"sa", "go", "ha", "da">>, <<"go", "ryeo">>,
    <<"go", "ryeo", "ha", "da">>, <<"geom", "to">>,
    <<"geom", "to", "ha", "da">>, <<"sug", "go">>,
    <<"sug", "go", "ha", "da">>, <<"go", "min">>, <<"go", "min", "ha", "da">>,
    <<"i", "hae">>, <<"i", "hae", "ha", "da">>, <<"i", "hae", "doe", "da">>,
    <<"pa", "ag">>, <<"pa", "ag", "ha", "da">>, <<"nab", "deug">>,
    <<"nab", "deug", "ha", "da">>, <<"kkae", "dad", "da">>,
    <<"kkae", "dal", "eum">>, <<"in", "sig">>, <<"in", "sig", "ha", "da">>,
    <<"al", "da">>, <<"al", "go">>, <<"al", "a">>, <<"mo", "reu", "da">>,
    <<"mo", "reu", "neun">>, <<"ji", "sig">>, <<"ji", "sig", "jeog">>,
    <<"in", "ji">>, <<"in", "ji", "ha", "da">>, <<"ui", "sig">>,
    <<"ui", "sig", "ha", "da">>, <<"pan", "dan">>,
    <<"pan", "dan", "ha", "da">>, <<"chu", "ron">>,
    <<"chu", "ron", "ha", "da">>, <<"bun", "seog">>,
    <<"bun", "seog", "ha", "da">>, <<"gyeol", "ron">>,
    <<"gyeol", "ron", "jis", "da">>, <<"chu", "cheug">>,
    <<"chu", "cheug", "ha", "da">>, <<"bae", "u", "da">>, <<"hag", "seub">>,
    <<"hag", "seub", "ha", "da">>, <<"gi", "eog">>,
    <<"gi", "eog", "ha", "da">>, <<"gi", "eog", "na", "da">>, <<"ij", "da">>,
    <<"ij", "eo", "beo", "ri", "da">>, <<"sang", "gi">>,
    <<"sang", "gi", "ha", "da">>, <<"gyeol", "jeong">>,
    <<"gyeol", "jeong", "ha", "da">>, <<"seon", "taeg">>,
    <<"seon", "taeg", "ha", "da">>, <<"gyeol", "sim">>,
    <<"gyeol", "sim", "ha", "da">>, <<"mid", "da">>, <<"mid", "eum">>,
    <<"ui", "gyeon">>, <<"gyeon", "hae">>, <<"hwag", "sin">>,
    <<"hwag", "sin", "ha", "da">>, <<"chu", "jeong">>,
    <<"chu", "jeong", "ha", "da">>
    }

(* INHIBITION, 41 entries *)
INHIBITION == {
    <<"mag", "da">>, <<"mag", "neun">>, <<"mag", "a">>, <<"cha", "dan">>,
    <<"cha", "dan", "ha", "da">>, <<"jeo", "ji">>,
    <<"jeo", "ji", "ha", "da">>, <<"bang", "hae">>,
    <<"bang", "hae", "ha", "da">>, <<"eog", "je">>,
    <<"eog", "je", "ha", "da">>, <<"ja", "je">>, <<"ja", "je", "ha", "da">>,
    <<"tong", "je">>, <<"tong", "je", "ha", "da">>, <<"je", "han">>,
    <<"je", "han", "ha", "da">>, <<"je", "eo">>, <<"je", "eo", "ha", "da">>,
    <<"geum", "ji">>, <<"geum", "ji", "ha", "da">>, <<"geum", "ha", "da">>,
    <<"mos", "ha", "ge">>, <<"mos", "ha", "da">>, <<"bul", "heo">>,
    <<"bul", "heo", "ha", "da">>, <<"meom", "chu", "da">>, <<"meom", "chwo">>,
    <<"jung", "dan">>, <<"jung", "dan", "ha", "da">>, <<"jung", "ji">>,
    <<"jung", "ji", "ha", "da">>, <<"geu", "man">>,
    <<"geu", "man", "du", "da">>, <<"pi", "ha", "da">>, <<"hoe", "pi">>,
    <<"hoe", "pi", "ha", "da">>, <<"sam", "ga", "da">>, <<"sam", "ga">>,
    <<"ja", "sug">>, <<"ja", "sug", "ha", "da">>
    }

(* PERCEPTUAL, 46 entries *)
PERCEPTUAL == {
    <<"bo", "da">>, <<"bo", "i", "da">>, <<"bwa">>,
    <<"ba", "ra", "bo", "da">>, <<"chyeo", "da", "bo", "da">>,
    <<"gwan", "chal">>, <<"gwan", "chal", "ha", "da">>, <<"mog", "gyeog">>,
    <<"mog", "gyeog", "ha", "da">>, <<"si", "gag">>, <<"si", "gag", "jeog">>,
    <<"nun">>, <<"nun", "e">>, <<"deud", "da">>, <<"deul", "ri", "da">>,
    <<"deul", "eo">>, <<"cheong", "chwi">>, <<"cheong", "chwi", "ha", "da">>,
    <<"so", "ri">>, <<"so", "eum">>, <<"cheong", "gag">>,
    <<"cheong", "gag", "jeog">>, <<"neu", "kki", "da">>, <<"neu", "kkim">>,
    <<"neu", "kkyeo", "ji", "da">>, <<"gam", "gag">>,
    <<"gam", "gag", "jeog">>, <<"chog", "gag">>, <<"chog", "gam">>,
    <<"man", "ji", "da">>, <<"jeob", "chog">>, <<"gam", "ji">>,
    <<"gam", "ji", "ha", "da">>, <<"mas">>, <<"mas", "bo", "da">>,
    <<"naem", "sae">>, <<"naem", "sae", "na", "da">>,
    <<"naem", "sae", "mat", "da">>, <<"hyang">>, <<"hyang", "gi">>, <<"gam">>,
    <<"gi", "bun">>, <<"in", "sang">>, <<"in", "sang", "jeog">>,
    <<"che", "gam">>, <<"che", "gam", "ha", "da">>
    }

(* NEGATIONS, 53 entries *)
NEGATIONS == {
    <<"an">>, <<"mos">>, <<"a", "ni">>, <<"an", "doe", "da">>,
    <<"mos", "ha", "da">>, <<"a", "ni", "da">>, <<"a", "ni", "ya">>,
    <<"eobs", "da">>, <<"eobs", "neun">>, <<"eobs", "eo">>,
    <<"mo", "reu", "da">>, <<"mo", "reu", "neun">>, <<"mol", "ra">>,
    <<"a", "mu">>, <<"a", "mu", "do">>, <<"a", "mu", "geos", "do">>,
    <<"jeon", "hyeo">>, <<"gyeol", "ko">>, <<"jeol", "dae">>,
    <<"jeol", "dae", "ro">>, <<"do", "jeo", "hi">>, <<"geo", "bu">>,
    <<"geo", "bu", "ha", "da">>, <<"geo", "jeol">>,
    <<"geo", "jeol", "ha", "da">>, <<"ban", "dae">>,
    <<"ban", "dae", "ha", "da">>, <<"bu", "jeong">>,
    <<"bu", "jeong", "ha", "da">>, <<"bu", "jae">>, <<"gyeol", "pib">>,
    <<"bu", "jog">>, <<"eobs", "eum">>, <<"mu">>, <<"bi">>, <<"bul">>,
    <<"mi">>, <<"bul", "ga">>, <<"bul", "neung">>, <<"geum", "ji">>,
    <<"geum", "ha", "da">>, <<"mal", "da">>, <<"ma">>, <<"ma", "ra">>,
    <<"ha", "ji", "ma">>, <<"ha", "ji", " ", "ma">>, <<"anh", "da">>,
    <<"anh", "neun">>, <<"anh", "a">>, <<"ji", " ", "anh", "da">>,
    <<"ji", " ", "anh", "neun">>, <<"ji", " ", "mos", "ha", "da">>,
    <<"ji", " ", "mos", "ha", "neun">>
    }

(* NEGATION_PATTERNS, 10 entries *)
NEGATION_PATTERNS == {
    <<"an">>, <<"mos">>, <<"anh">>, <<"eobs">>, <<"a", "ni">>, <<"mal">>,
    <<"bul">>, <<"bi">>, <<"mu">>, <<"mi">>
    }

(* QUANTIFIERS, 70 entries *)
QUANTIFIERS == {
    <<"mo", "deun">>, <<"mo", "du">>, <<"jeon", "bu">>, <<"jeon", "che">>,
    <<"jeon", "che", "ui">>, <<"jeon", "che", "jeog">>, <<"da">>,
    <<"da", "deul">>, <<"mo", "jo", "ri">>,
    <<"ha", "na", "do", " ", "ppa", "jim", "eobs", "i">>, <<"manh", "i">>,
    <<"manh", "eun">>, <<"manh", "da">>, <<"jeog", "ge">>, <<"jeog", "eun">>,
    <<"jeog", "da">>, <<"jo", "geum">>, <<"yag", "gan">>, <<"jom">>,
    <<"a", "ju">>, <<"mae", "u">>, <<"goeng", "jang", "hi">>,
    <<"eom", "cheong">>, <<"neo", "mu">>, <<"ji", "na", "chi", "ge">>,
    <<"ga", "jang">>, <<"je", "il">>, <<"choe", "go", "ro">>, <<"deo">>,
    <<"deo", "ug">>, <<"han", "cheung">>, <<"deol">>, <<"bo", "da">>,
    <<"hwol", "ssin">>, <<"jo", "geum", " ", "deo">>, <<"myeoch">>,
    <<"myeoch", "myeoch">>, <<"yeo", "reo">>, <<"yag">>, <<"dae", "ryag">>,
    <<"jeong", "do">>, <<"su", "manh", "eun">>, <<"su", "cheon">>,
    <<"su", "baeg">>, <<"eo", "tteon">>, <<"il", "bu">>, <<"il", "bu", "ui">>,
    <<"bu", "bun">>, <<"bu", "bun", "jeog">>, <<"so", "su">>, <<"da", "su">>,
    <<"hang", "sang">>, <<"eon", "je", "na">>, <<"neul">>, <<"ja", "ju">>,
    <<"jong", "jong">>, <<"ga", "kkeum">>, <<"ttae", "ttae", "ro">>,
    <<"i", "tta", "geum">>, <<"jeol", "dae">>, <<"jeol", "dae", "ro">>,
    <<"jeon", "hyeo">>, <<"gyeol", "ko">>, <<"wan", "jeon", "hi">>,
    <<"wan", "jeon">>, <<"chung", "bun", "hi">>, <<"chung", "bun", "han">>,
    <<"geo", "ui">>, <<"dae", "bu", "bun">>, <<"jeon", "jeog", "eu", "ro">>
    }

(* WORK, 83 entries *)
WORK == {
    <<"il">>, <<"il", "ha", "da">>, <<"eob", "mu">>, <<"jig", "jang">>,
    <<"hoe", "sa">>, <<"gi", "eob">>, <<"jig", "eob">>, <<"jig", "wi">>,
    <<"jig", "chaeg">>, <<"go", "yong">>, <<"chwi", "eob">>,
    <<"chwi", "jig">>, <<"sa", "won">>, <<"jig", "won">>, <<"dong", "ryo">>,
    <<"sang", "sa">>, <<"bu", "ha">>, <<"tim", "won">>, <<"tim", "jang">>,
    <<"bu", "jang">>, <<"gwa", "jang">>, <<"dae", "ri">>,
    <<"mae", "ni", "jeo">>, <<"ri", "deo">>, <<"chaeg", "im", "ja">>,
    <<"geun", "mu">>, <<"geun", "mu", "ha", "da">>, <<"chul", "geun">>,
    <<"toe", "geun">>, <<"ya", "geun">>, <<"eob", "mu", "cheo", "ri">>,
    <<"hyeob", "eob">>, <<"hyeob", "ryeog">>, <<"hyeob", "jo">>,
    <<"hoe", "ui">>, <<"mi", "ting">>, <<"bo", "go">>,
    <<"peu", "ro", "jeg", "teu">>, <<"gwa", "je">>, <<"tae", "seu", "keu">>,
    <<"mog", "pyo">>, <<"ma", "gam">>, <<"il", "jeong">>,
    <<"seu", "ke", "jul">>, <<"gye", "hoeg">>, <<"seong", "gwa">>,
    <<"sil", "jeog">>, <<"gyeol", "gwa">>, <<"dal", "seong">>,
    <<"dal", "seong", "ha", "da">>, <<"seong", "chwi">>,
    <<"seong", "chwi", "ha", "da">>, <<"wan", "ryo">>, <<"wan", "seong">>,
    <<"ma", "mu", "ri">>, <<"gyeong", "ryeog">>, <<"gyeong", "heom">>,
    <<"i", "ryeog">>, <<"seung", "jin">>, <<"jin", "geub">>,
    <<"neung", "ryeog">>, <<"yeog", "ryang">>, <<"seu", "kil">>,
    <<"jeon", "mun">>, <<"jeon", "mun", "seong">>, <<"jeon", "mun", "ga">>,
    <<"bi", "jeu", "ni", "seu">>, <<"sa", "eob">>, <<"geo", "rae">>,
    <<"gye", "yag">>, <<"hyeob", "sang">>,
    <<"keul", "ra", "i", "eon", "teu">>, <<"go", "gaeg">>, <<"san", "eob">>,
    <<"bun", "ya">>, <<"seg", "teo">>, <<"si", "jang">>,
    <<"gyeong", "jaeng">>, <<"gyo", "yug">>, <<"hun", "ryeon">>,
    <<"yeon", "su">>, <<"ja", "gyeog", "jeung">>, <<"in", "jeung">>
    }

(* RELATIVITY, 99 entries *)
RELATIVITY == {
    <<"gwa", "geo">>, <<"i", "jeon">>, <<"jeon", "e">>, <<"ye", "jeon">>,
    <<"yes", "nal">>, <<"ji", "nan">>, <<"eoss">>, <<"yeoss">>, <<"ass">>,
    <<"hyeon", "jae">>, <<"ji", "geum">>, <<"o", "neul">>, <<"i", "beon">>,
    <<"yo", "jeum">>, <<"choe", "geun">>, <<"neun">>, <<"-n">>,
    <<"mi", "rae">>, <<"na", "jung">>, <<"ap", "eu", "ro">>, <<"da", "eum">>,
    <<"nae", "il">>, <<"cha", "hu">>, <<"gess">>, <<"-l">>, <<"dong", "an">>,
    <<"gi", "gan">>, <<"si", "gan">>, <<"ttae">>, <<"sun", "gan">>,
    <<"jam", "si">>, <<"o", "rae">>, <<"jam", "kkan">>, <<"il", "si">>,
    <<"ja", "ju">>, <<"ga", "kkeum">>, <<"hang", "sang">>,
    <<"ttae", "ttae", "ro">>, <<"jong", "jong">>, <<"neul">>,
    <<"mae", "beon">>, <<"mae", "il">>, <<"mae", "ju">>, <<"yeo", "gi">>,
    <<"jeo", "gi">>, <<"geo", "gi">>, <<"i", "gos">>, <<"jeo", "gos">>,
    <<"geu", "gos">>, <<"wi">>, <<"a", "rae">>, <<"ap">>, <<"dwi">>,
    <<"yeop">>, <<"an">>, <<"bakk">>, <<"sog">>, <<"jjog">>,
    <<"bang", "hyang">>, <<"bang", "myeon">>, <<"hyang", "hae">>,
    <<"hyang", "ha", "da">>, <<"tta", "ra">>, <<"tong", "hae">>,
    <<"ga", "kka", "i">>, <<"ga", "kkab", "da">>, <<"meol", "ri">>,
    <<"meol", "da">>, <<"geun", "cheo">>, <<"ju", "byeon">>, <<"bu", "geun">>,
    <<"ga", "da">>, <<"o", "da">>, <<"um", "jig", "i", "da">>,
    <<"i", "dong">>, <<"i", "dong", "ha", "da">>, <<"jin", "haeng">>,
    <<"jin", "haeng", "ha", "da">>, <<"na", "a", "ga", "da">>,
    <<"dol", "a", "ga", "da">>, <<"gwan", "ryeon">>,
    <<"gwan", "ryeon", "ha", "da">>, <<"gwan", "ryeon", "doen">>,
    <<"dae", "hae">>, <<"dae", "han">>, <<"dae", "ha", "yeo">>,
    <<"gwan", "ha", "yeo">>, <<"gwan", "hae">>, <<"tta", "reu", "da">>,
    <<"tta", "ra", "seo">>, <<"tta", "reu", "myeon">>, <<"tong", "ha", "da">>,
    <<"tong", "hae", "seo">>, <<"bi", "hae">>, <<"bi", "ha", "yeo">>,
    <<"dae", "bi">>, <<"dae", "bi", "ha", "yeo">>, <<"dal", "ri">>,
    <<"ban", "hae">>
    }

(* FILLERS: each word with its weight, 30 entries *)
FILLERS == {
    <<<<"eum">>, 100>>, <<<<"eo">>, 100>>, <<<<"e">>, 90>>, <<<<"a">>, 90>>,
    <<<<"eu">>, 90>>, <<<<"geu">>, 80>>, <<<<"jeo">>, 80>>, <<<<"i">>, 70>>,
    <<<<"mwo">>, 90>>, <<<<"jeo", "gi">>, 90>>,
    <<<<"geu", "reo", "ni", "kka">>, 70>>, <<<<"iss", "janh", "a">>, 80>>,
    <<<<"mal", "i", "ya">>, 70>>, <<<<"yag", "gan">>, 60>>, <<<<"jom">>, 50>>,
    <<<<"mwo", "ral", "kka">>, 90>>, <<<<"eo", "tteoh", "ge">>, 50>>,
    <<<<"geul", "sse">>, 80>>, <<<<"a", "mu", "teun">>, 60>>,
    <<<<"eo", "jjaess", "deun">>, 60>>, <<<<"ha", "yeo", "teun">>, 60>>,
    <<<<"geu", "rae", "seo">>, 40>>, <<<<"geun", "de">>, 50>>,
    <<<<"geu", "reon", "de">>, 40>>, <<<<"geu", "ri", "go">>, 30>>,
    <<<<"a", "ni">>, 60>>, <<<<"mag">>, 70>>, <<<<"i", "je">>, 50>>,
    <<<<"jin", "jja">>, 40>>, <<<<"sol", "jig", "hi">>, 40>>
    }

(* ALL_NEGATIVE_EMOTION *)
(* mutant: the combined set is the negative dictionary alone *)
ALL_NEGATIVE_EMOTION_NegativeOnly == NEGATIVE_EMOTION

ALL_NEGATIVE_EMOTION == NEGATIVE_EMOTION \cup ANXIETY \cup ANGER \cup SADNESS

(* The filler weights are summed and truncated as floats, and the sum of   *)
(* 0.6, 0.7 and 0.7 is not the float 2.0, so the sums keep the precision   *)
(* of a double: a float is its exact value in units of 2^-54, written as   *)
(* the two limbs of hi * DBase + lo.                                       *)
DBase == 268435456

DZero == [hi |-> 0, lo |-> 0]

(* the double that the literal x / SCALE of the FILLERS table denotes *)
FloatLiteral(x) ==
    CASE x = 0 -> DZero
      [] x = 30 -> [hi |-> 20132659, lo |-> 53687091]
      [] x = 40 -> [hi |-> 26843545, lo |-> 161061274]
      [] x = 50 -> [hi |-> 33554432, lo |-> 0]
      [] x = 60 -> [hi |-> 40265318, lo |-> 107374182]
      [] x = 70 -> [hi |-> 46976204, lo |-> 214748364]
      [] x = 80 -> [hi |-> 53687091, lo |-> 53687092]
      [] x = 90 -> [hi |-> 60397977, lo |-> 161061274]
      [] x = 100 -> [hi |-> 67108864, lo |-> 0]

(* the spacing of the doubles, in units of 2^-54, around a value with the  *)
(* high limb hi: 53 significant bits                                       *)
RECURSIVE Ulp(_)
Ulp(hi) == IF hi < DBase \div 8 THEN 1 ELSE 2 * Ulp(hi \div 2)

(* round to nearest, ties to even *)
DRound(hi, lo) ==
    LET q == Ulp(hi)
        r == lo % q
        odd == (lo \div q) % 2 = 1
        up == 2 * r > q \/ (2 * r = q /\ odd)
        rounded == IF up THEN lo - r + q ELSE lo - r
    IN  [hi |-> hi + rounded \div DBase, lo |-> rounded % DBase]

(* x + y on floats >= 0 *)
DAdd(x, y) ==
    LET lo == x.lo + y.lo
    IN  DRound(x.hi + y.hi + lo \div DBase, lo % DBase)

(* x > 0 and int(x) on a float >= 0 *)
DPositive(x) == x.hi > 0 \/ x.lo > 0
DInt(x) == x.hi \div (DBase \div 4)

(* the literal of the FILLERS table for the word, 0.0 without one *)
FillerLiteral(word) ==
    IF \E e \in FILLERS : e[1] = word
    THEN (CHOOSE e \in FILLERS : e[1] = word)[2]
    ELSE 0

(* get_filler_weight(word): FILLERS.get(word, 0.0) *)
get_filler_weight(word) == FloatLiteral(FillerLiteral(word))

(* FeatureExtractor._safe_ratio, _safe_rate: count and total are ints,      *)
(* duration is a float                                                      *)
SafeRatio(count, total) == IF total = 0 THEN 0 ELSE FDiv(count, total)

SafeRate_ZeroDurationIsOneSecond(count, duration) ==
    IF duration <= 0 THEN count * SCALE ELSE FDiv(count * SCALE, duration)

SafeRate(count, duration) ==
    IF duration <= 0 THEN 0 ELSE FDiv(count * SCALE, duration)

(* FeatureExtractor._count_by_pos *)
CountByPos(tokens, pos_tags) ==
    LET Test(token) == token.tag \in pos_tags IN Len(SelectSeq(tokens, Test))

(* int(x) of a float x >= 0 *)
Trunc(x) == x \div SCALE

(* dict.update(other) *)
Update(d, other) == other @@ d

(* SpeakingRateExtractor.extract *)
SpeakingRateContentTokens(tokens) ==
    LET Test(t) == t.tag \notin EXCLUDED_TAGS IN SelectSeq(tokens, Test)

(* filler_count: the loop over content_tokens adding each positive weight *)
(* to the count so far                                                     *)
RECURSIVE FillerCountLoop(_, _)
FillerCountLoop(filler_count, content_tokens) ==
    IF content_tokens = <<>> THEN filler_count
    ELSE LET weight == get_filler_weight(Head(content_tokens).form)
         IN  FillerCountLoop(IF DPositive(weight) THEN DAdd(filler_count, weight)
                             ELSE filler_count,
                             Tail(content_tokens))

FillerCount(content_tokens) == FillerCountLoop(DZero, content_tokens)

SpeakingRateExtract(tokens, duration) ==
    LET content_tokens == SpeakingRateContentTokens(tokens)
        wc == Len(content_tokens)
        unique_forms == {content_tokens[i].form : i \in DOMAIN content_tokens}
        uc == Cardinality(unique_forms)
        filler_count == FillerCount(content_tokens)
    IN  "wpsec" :> SafeRate(wc, duration)
        @@ "upsec" :> SafeRate(uc, duration)
        @@ "fpsec" :> SafeRate(DInt(filler_count), duration)
        @@ "wc" :> wc * SCALE
        @@ "uc" :> uc * SCALE

(* PronounExtractor.extract *)
PronounContentTokens(tokens) ==
    LET Test(t) == t.tag \notin EXCLUDED_TAGS IN SelectSeq(tokens, Test)

(* mutant: the containment test is made whatever the tag *)
PronounBranch_AnyTag(token) ==
    LET form == token.form
    IN  IF form \in PRONOUNS_I_LEMMAS THEN "i"
        ELSE IF form \in PRONOUNS_WE_LEMMAS THEN "we"
        ELSE IF form \in PRONOUNS_THEY_LEMMAS THEN "they"
        ELSE IF \E p \in PRONOUNS_I_LEMMAS : Contains(form, p) THEN "i"
        ELSE IF \E p \in PRONOUNS_WE_LEMMAS : Contains(form, p) THEN "we"
        ELSE IF \E p \in PRONOUNS_THEY_LEMMAS : Contains(form, p) THEN "they"
        ELSE "none"

(* the branch of the if/elif chain a token takes: the counter it raises *)
PronounBranch(token) ==
    LET form == token.form
    IN  IF form \in PRONOUNS_I_LEMMAS THEN "i"
        ELSE IF form \in PRONOUNS_WE_LEMMAS THEN "we"
        ELSE IF form \in PRONOUNS_THEY_LEMMAS THEN "they"
        ELSE IF token.tag = "NP"
             THEN IF \E p \in PRONOUNS_I_LEMMAS : Contains(form, p) THEN "i"
                  ELSE IF \E p \in PRONOUNS_WE_LEMMAS : Contains(form, p) THEN "we"
                  ELSE IF \E p \in PRONOUNS_THEY_LEMMAS : Contains(form, p) THEN "they"
                  ELSE "none"
        ELSE "none"

PronounCount(content_tokens, branch) ==
    LET Test(token) == PronounBranch(token) = branch IN Len(SelectSeq(content_tokens, Test))

PronounExtract(tokens, duration) ==
    LET content_tokens == PronounContentTokens(tokens)
        total == Len(content_tokens)
    IN  "i_ratio" :> SafeRatio(PronounCount(content_tokens, "i"), total)
        @@ "we_ratio" :> SafeRatio(PronounCount(content_tokens, "we"), total)
        @@ "they_ratio" :> SafeRatio(PronounCount(content_tokens, "they"), total)

(* POSFeatureExtractor.extract *)
POSContentTokens_KeepsNumbers(tokens) ==
    LET Test(t) == t.tag \notin (EXCLUDED_TAGS \ {"SN"}) IN SelectSeq(tokens, Test)

POSContentTokens(tokens) ==
    LET Test(t) == t.tag \notin EXCLUDED_TAGS IN SelectSeq(tokens, Test)

POSExtract(tokens, duration) ==
    LET content_tokens == POSContentTokens(tokens)
        total == Len(content_tokens)
    IN  "article_ratio" :> SafeRatio(CountByPos(content_tokens, POS_TO_LIWC.article), total)
        @@ "verb_ratio" :> SafeRatio(CountByPos(content_tokens, POS_TO_LIWC.verb), total)
        @@ "adverb_ratio" :> SafeRatio(CountByPos(content_tokens, POS_TO_LIWC.adverb), total)
        @@ "preposition_ratio" :> SafeRatio(CountByPos(content_tokens, POS_TO_LIWC.preposition), total)
        @@ "conjunction_ratio" :> SafeRatio(CountByPos(content_tokens, POS_TO_LIWC.conjunction), total)
        @@ "number_ratio" :> SafeRatio(CountByPos(content_tokens, POS_TO_LIWC.number), total)

(* mutant: the length of the dictionary word is not tested *)
CountEmotionWords_AnyLength(tokens, emotion_set) ==
    LET Test(token) ==
            \/ token.form \in emotion_set
            \/ /\ token.tag \in {"VV", "VA", "VX"}
               /\ \E word \in emotion_set : StartsWith(token.form, FirstTwo(word))
    IN  Len(SelectSeq(tokens, Test))

(* EmotionExtractor._count_emotion_words *)
CountEmotionWords(tokens, emotion_set) ==
    LET Test(token) ==
            \/ token.form \in emotion_set
            \/ /\ token.tag \in {"VV", "VA", "VX"}
               /\ \E word \in emotion_set :
                      StartsWith(token.form, FirstTwo(word)) /\ Len(word) >= 2
    IN  Len(SelectSeq(tokens, Test))

(* EmotionExtractor.extract *)
EmotionContentTokens(tokens) ==
    LET Test(t) == t.tag \notin EXCLUDED_TAGS IN SelectSeq(tokens, Test)

EmotionExtract(tokens, duration) ==
    LET content_tokens == EmotionContentTokens(tokens)
        total == Len(content_tokens)
    IN  "pos_emotion_ratio" :> SafeRatio(CountEmotionWords(content_tokens, POSITIVE_EMOTION), total)
        @@ "neg_emotion_ratio" :> SafeRatio(CountEmotionWords(content_tokens, ALL_NEGATIVE_EMOTION), total)
        @@ "anxiety_ratio" :> SafeRatio(CountEmotionWords(content_tokens, ANXIETY), total)
        @@ "anger_ratio" :> SafeRatio(CountEmotionWords(content_tokens, ANGER), total)
        @@ "sadness_ratio" :> SafeRatio(CountEmotionWords(content_tokens, SADNESS), total)

(* CognitiveExtractor._count_cognitive_words *)
CountCognitiveWords(tokens, word_set) ==
    LET Test(token) ==
            \/ token.form \in word_set
            \/ /\ token.tag \in {"VV", "VA", "VX"}
               /\ \E word \in word_set :
                      StartsWith(token.form, FirstTwo(word)) /\ Len(word) >= 2
    IN  Len(SelectSeq(tokens, Test))

(* CognitiveExtractor.extract *)
CognitiveContentTokens(tokens) ==
    LET Test(t) == t.tag \notin EXCLUDED_TAGS IN SelectSeq(tokens, Test)

CognitiveExtract(tokens, duration) ==
    LET content_tokens == CognitiveContentTokens(tokens)
        total == Len(content_tokens)
    IN  "cognitive_ratio" :> SafeRatio(CountCognitiveWords(content_tokens, COGNITIVE), total)
        @@ "inhibition_ratio" :> SafeRatio(CountCognitiveWords(content_tokens, INHIBITION), total)
        @@ "perceptual_ratio" :> SafeRatio(CountCognitiveWords(content_tokens, PERCEPTUAL), total)

(* mutant: the length of the dictionary word is not tested *)
CountDictionaryWords_AnyLength(tokens, word_set) ==
    LET Test(token) ==
            \/ token.form \in word_set
            \/ \E word \in word_set :
                   StartsWith(token.form, word) \/ StartsWith(word, token.form)
    IN  Len(SelectSeq(tokens, Test))

(* MiscFeatureExtractor._count_dictionary_words, use_partial = True *)
CountDictionaryWords(tokens, word_set) ==
    LET Test(token) ==
            \/ token.form \in word_set
            \/ \E word \in word_set :
                   /\ Len(word) >= 2
                   /\ StartsWith(token.form, word) \/ StartsWith(word, token.form)
    IN  Len(SelectSeq(tokens, Test))

(* MiscFeatureExtractor._count_negations: the direct match counts the       *)
(* token and goes on to the next one; the mutant drops that `continue`      *)
NegationHits_NoContinue(form) ==
    (IF form \in NEGATIONS THEN 1 ELSE 0)
    + (IF \E pattern \in NEGATION_PATTERNS :
              StartsWith(form, pattern) \/ EndsWith(form, pattern)
       THEN 1 ELSE 0)

NegationHits(form) ==
    IF form \in NEGATIONS THEN 1
    ELSE IF \E pattern \in NEGATION_PATTERNS :
                StartsWith(form, pattern) \/ EndsWith(form, pattern)
         THEN 1 ELSE 0

RECURSIVE CountNegations(_)
CountNegations(tokens) ==
    IF tokens = <<>> THEN 0
    ELSE NegationHits(Head(tokens).form) + CountNegations(Tail(tokens))

(* MiscFeatureExtractor._count_nonfluency *)
RECURSIVE CountNonfluencyLoop(_, _)
CountNonfluencyLoop(count, tokens) ==
    IF tokens = <<>> THEN count
    ELSE LET weight == get_filler_weight(Head(tokens).form)
         IN  CountNonfluencyLoop(IF DPositive(weight) THEN DAdd(count, weight)
                                 ELSE count,
                                 Tail(tokens))

CountNonfluency(tokens) == CountNonfluencyLoop(DZero, tokens)

(* MiscFeatureExtractor.extract *)
MiscContentTokens(tokens) ==
    LET Test(t) == t.tag \notin EXCLUDED_TAGS IN SelectSeq(tokens, Test)

MiscExtract(tokens, duration) ==
    LET content_tokens == MiscContentTokens(tokens)
        total == Len(content_tokens)
        nonfluency_count == CountNonfluency(content_tokens)
        swear_count == 0
    IN  "nonfluency_ratio" :> SafeRatio(DInt(nonfluency_count), total)
        @@ "negation_ratio" :> SafeRatio(CountNegations(content_tokens), total)
        @@ "quantifier_ratio" :> SafeRatio(CountDictionaryWords(content_tokens, QUANTIFIERS), total)
        @@ "work_ratio" :> SafeRatio(CountDictionaryWords(content_tokens, WORK), total)
        @@ "relativity_ratio" :> SafeRatio(CountDictionaryWords(content_tokens, RELATIVITY), total)
        @@ "swear_ratio" :> SafeRatio(swear_count, total)

(* KiwiTokenizer.tokenize: no tokens for an empty or whitespace-only text,  *)
(* otherwise the tokens the Kiwi analyzer returns for the text              *)
Whitespace == {" ", "\t", "\n", "\r"}

IsBlank(text) == \A i \in DOMAIN text : text[i] \in Whitespace

Tokenize_NoBlankCheck(text, kiwi) == kiwi

Tokenize(text, kiwi) == IF IsBlank(text) THEN <<>> ELSE kiwi

(* InterviewAnalyzer._extractors, in order *)
Extractors ==
    <<"SpeakingRate", "Pronoun", "POS", "Emotion", "Cognitive", "Misc">>

Extract(extractor, tokens, duration) ==
    CASE extractor = "SpeakingRate" -> SpeakingRateExtract(tokens, duration)
      [] extractor = "Pronoun" -> PronounExtract(tokens, duration)
      [] extractor = "POS" -> POSExtract(tokens, duration)
      [] extractor = "Emotion" -> EmotionExtract(tokens, duration)
      [] extractor = "Cognitive" -> CognitiveExtract(tokens, duration)
      [] extractor = "Misc" -> MiscExtract(tokens, duration)

(* the loop of extract_features over the extractors from position i *)
RECURSIVE UpdateAll(_, _, _, _)
UpdateAll(features, tokens, duration, i) ==
    IF i > Len(Extractors) THEN features
    ELSE UpdateAll(Update(features, Extract(Extractors[i], tokens, duration)),
                   tokens, duration, i + 1)

(* InterviewAnalyzer.extract_features *)
ExtractFeatures(text, kiwi, duration) ==
    LET tokens == Tokenize(text, kiwi)
    IN  UpdateAll(EmptyMap, tokens, duration, 1)

(* Inputs of the analyzer *)
MaxTokens == 2     \* longest token list the Kiwi analyzer returns

TokenUniverse ==
    {Token(<<"eum">>, "IC"),             \* filler, weight 1.0
     Token(<<"jom">>, "MAG"),            \* filler, weight 0.5; adverb
     Token(<<"jeo">>, "NP"),             \* first person; filler, weight 0.8
     Token(<<"u", "ri">>, "NP"),         \* first person plural
     Token(<<"geu", "deul">>, "NP"),     \* third person plural
     Token(<<"joh", "a", "ha">>, "VV"),  \* verb stem of a positive word
     Token(<<"seul", "peu">>, "VA"),     \* verb stem of a sadness word
     Token(<<"an">>, "MAG"),             \* negation
     Token(<<"saeng", "gag">>, "NNG"),   \* cognitive noun
     Token(<<"hoe", "sa">>, "NNG"),      \* work noun
     Token(<<"jeo", "hui", "deul">>, "NP"),  \* compound pronoun holding two lemmas
     Token(<<"na", "ra">>, "NNG"),       \* noun holding a first-person lemma
     Token(<<"hoe">>, "NNG"),            \* prefix of a work noun
     Token(<<"hoe", "sa", "won">>, "NNG"),   \* a work noun and a suffix
     Token(<<"il", "yo", "il">>, "NNG"), \* starts with a one-character work noun
     Token(<<"bul", "an">>, "NNG"),      \* anxiety noun
     Token(<<>>, "NNG"),                 \* a token with an empty form
     Token(<<"3">>, "SN"),               \* digits
     Token(<<".">>, "SF")}               \* full stop

TokenSeqs == UNION {[1..n -> TokenUniverse] : n \in 0..MaxTokens}

Texts == {<<>>, <<" ">>, <<"\t", " ">>, <<"eum">>}

(* what Kiwi would return for the text; it is not asked about a blank one *)
KiwiResults(text) ==
    IF IsBlank(text) THEN {s \in TokenSeqs : Len(s) <= 1} ELSE TokenSeqs

Durations == {0, HALF, 2 * SCALE}

InitExtract ==
    /\ kind = "analyzer"
    /\ preset = EmptyMap
    /\ stats = EmptyMap
    /\ is_fitted = FALSE
    /\ weights = FEATURE_WEIGHTS
    /\ vector = EmptyMap
    /\ segments = <<>>
    /\ op = "init"
    /\ \E text \in Texts : \E kiwi \in KiwiResults(text) : \E duration \in Durations :
           arg = [text |-> text, kiwi |-> kiwi, duration |-> duration]
    /\ ret = Return(EmptyMap)
    /\ fit_called = FALSE
    /\ file = NoFile
    /\ threads = EmptyMap

ExtractFeaturesCall ==
    /\ kind = "analyzer"
    /\ op = "init"
    /\ op' = "extract_features"
    /\ ret' = Return(ExtractFeatures(arg.text, arg.kiwi, arg.duration))
    /\ UNCHANGED <<kind, preset, stats, is_fitted, arg, fit_called, file, threads, weights, vector, segments>>

NextExtract == ExtractFeaturesCall

SpecExtract == InitExtract /\ [][NextExtract]_vars

-----------------------------------------------------------------------------
(* Properties of feature extraction *)

Extracted == op = "extract_features"

(* the tokens the extractors were given in the call *)
tokens_of_call == Tokenize(arg.text, arg.kiwi)

RateNames == {"wpsec", "upsec", "fpsec"}
RatioNames == FeatureNames \ (RateNames \cup {"wc", "uc"})

(* C15: for every token sequence and every duration >= 0, feature          *)
(* extraction does not raise, every *_ratio feature lies in [0, 1] and     *)
(* the rates wpsec, upsec and fpsec are >= 0.                              *)
C15_RatiosAndRatesInRange ==
    Extracted =>
        /\ ret.raised = "none"
        /\ DOMAIN ret.value = FeatureNames
        /\ \A name \in RatioNames : 0 <= ret.value[name] /\ ret.value[name] <= ONE
        /\ \A name \in RateNames : ret.value[name] >= 0

(* a call on negation words alone, spoken in a positive duration *)
C15_Witness ==
    /\ Extracted
    /\ arg.duration > 0
    /\ Len(tokens_of_call) = MaxTokens
    /\ ret.value["negation_ratio"] = ONE
    /\ ret.value["wpsec"] > 0

(* C16: an empty or whitespace-only text gives no tokens, and with no      *)
(* tokens every feature of every extractor is 0, whatever the duration.    *)
C16_EmptyTextAllZero ==
    (Extracted /\ (IsBlank(arg.text) \/ tokens_of_call = <<>>)) =>
        /\ tokens_of_call = <<>>
        /\ ret = Return([name \in FeatureNames |-> 0])

(* a whitespace-only text, for which Kiwi would have returned a token *)
C16_Witness ==
    /\ Extracted
    /\ arg.text # <<>>
    /\ IsBlank(arg.text)
    /\ arg.kiwi # <<>>
    /\ arg.duration > 0
    /\ ret.value["wc"] = 0

(* C17: with duration 0 the three rates are 0.0 whatever the tokens, and   *)
(* wc and uc are still the number of content tokens and of their distinct  *)
(* forms.                                                                  *)
C17_ZeroDuration ==
    (Extracted /\ arg.duration = 0) =>
        LET content == {i \in DOMAIN tokens_of_call :
                            tokens_of_call[i].tag \notin EXCLUDED_TAGS}
        IN  /\ \A name \in RateNames : ret.value[name] = 0
            /\ ret.value["wc"] = Cardinality(content) * SCALE
            /\ ret.value["uc"] = Cardinality({tokens_of_call[i].form : i \in content}) * SCALE

(* duration 0, the same filler twice *)
C17_Witness ==
    /\ Extracted
    /\ arg.duration = 0
    /\ ret.value["wc"] = MaxTokens * SCALE
    /\ ret.value["uc"] = SCALE
    /\ ret.value["nonfluency_ratio"] = ONE

(* C18: every extractor drops exactly the tokens whose tag is excluded, so *)
(* the Pronoun, POS, Emotion, Cognitive and Miscellaneous ratios all       *)
(* divide by the wc that the Speaking Rate extractor reports.              *)
C18_SameDenominator ==
    Extracted =>
        \A content_tokens \in {PronounContentTokens(tokens_of_call),
                               POSContentTokens(tokens_of_call),
                               EmotionContentTokens(tokens_of_call),
                               CognitiveContentTokens(tokens_of_call),
                               MiscContentTokens(tokens_of_call)} :
            /\ content_tokens = SpeakingRateContentTokens(tokens_of_call)
            /\ Len(content_tokens) * SCALE = ret.value["wc"]

(* a call whose tokens hold a digit token next to a content token *)
C18_Witness ==
    /\ Extracted
    /\ \E i \in DOMAIN tokens_of_call : tokens_of_call[i].tag = "SN"
    /\ ret.value["wc"] = SCALE
    /\ ret.value["verb_ratio"] = ONE

-----------------------------------------------------------------------------
(* FeatureVector *)

(* FeatureVector.feature_names() *)
feature_names ==
    <<"wpsec", "upsec", "fpsec", "wc", "uc",
      "i_ratio", "we_ratio", "they_ratio",
      "article_ratio", "verb_ratio", "adverb_ratio", "preposition_ratio",
      "conjunction_ratio", "number_ratio",
      "pos_emotion_ratio", "neg_emotion_ratio", "anxiety_ratio",
      "anger_ratio", "sadness_ratio",
      "cognitive_ratio", "inhibition_ratio", "perceptual_ratio",
      "nonfluency_ratio", "negation_ratio", "quantifier_ratio",
      "work_ratio", "relativity_ratio", "swear_ratio">>

(* the dataclass fields other than raw_counts, which from_dict leaves at   *)
(* its default and to_dict does not read                                   *)
Fields == {feature_names[i] : i \in DOMAIN feature_names}

(* FeatureVector.from_dict: wc and uc are ints, int(data.get(name, 0)) *)
FromDict(data) ==
    [name \in Fields |->
        IF name \in {"wc", "uc"} THEN Trunc(Get(data, name, 0))
        ELSE Get(data, name, 0)]

(* FeatureVector.to_dict: wc and uc as float(self.wc), float(self.uc) *)
ToDict(self) ==
    "wpsec" :> self["wpsec"]
    @@ "upsec" :> self["upsec"]
    @@ "fpsec" :> self["fpsec"]
    @@ "wc" :> self["wc"] * SCALE
    @@ "uc" :> self["uc"] * SCALE
    @@ "i" :> self["i_ratio"]
    @@ "we" :> self["we_ratio"]
    @@ "they" :> self["they_ratio"]
    @@ "article" :> self["article_ratio"]
    @@ "verb" :> self["verb_ratio"]
    @@ "adverb" :> self["adverb_ratio"]
    @@ "preposition" :> self["preposition_ratio"]
    @@ "conjunction" :> self["conjunction_ratio"]
    @@ "number" :> self["number_ratio"]
    @@ "pos_emotion" :> self["pos_emotion_ratio"]
    @@ "neg_emotion" :> self["neg_emotion_ratio"]
    @@ "anxiety" :> self["anxiety_ratio"]
    @@ "anger" :> self["anger_ratio"]
    @@ "sadness" :> self["sadness_ratio"]
    @@ "cognitive" :> self["cognitive_ratio"]
    @@ "inhibition" :> self["inhibition_ratio"]
    @@ "perceptual" :> self["perceptual_ratio"]
    @@ "nonfluency" :> self["nonfluency_ratio"]
    @@ "negation" :> self["negation_ratio"]
    @@ "quantifier" :> self["quantifier_ratio"]
    @@ "work" :> self["work_ratio"]
    @@ "relativity" :> self["relativity_ratio"]
    @@ "swear" :> self["swear_ratio"]

(* Raw mappings handed to from_dict *)
VectorNames == {"wpsec", "wc", "i_ratio"}
VectorVals == {0, HALF, ONE + HALF}
VectorInputs == Maps(VectorNames, VectorVals)

InitVector ==
    /\ kind = "feature_vector"
    /\ preset = EmptyMap
    /\ stats = EmptyMap
    /\ is_fitted = FALSE
    /\ weights = EmptyMap
    /\ vector = EmptyMap
    /\ segments = <<>>
    /\ op = "init"
    /\ \E data \in VectorInputs : arg = [data |-> data]
    /\ ret = Return(EmptyMap)
    /\ fit_called = FALSE
    /\ file = NoFile
    /\ threads = EmptyMap

FromDictCall ==
    /\ kind = "feature_vector"
    /\ op = "init"
    /\ op' = "from_dict"
    /\ vector' = FromDict(arg.data)
    /\ ret' = Return(EmptyMap)
    /\ UNCHANGED <<kind, preset, stats, is_fitted, arg, fit_called, file, threads, weights, segments>>

ToDictCall ==
    /\ kind = "feature_vector"
    /\ op \in {"from_dict", "to_dict"}
    /\ op' = "to_dict"
    /\ ret' = Return(ToDict(vector))
    /\ UNCHANGED <<kind, preset, stats, is_fitted, arg, fit_called, file, threads, weights, vector, segments>>

NextVector == FromDictCall \/ ToDictCall

SpecVector == InitVector /\ [][NextVector]_vars

(* C19: for every raw mapping m over canonical names, the mapping that     *)
(* to_dict() returns for from_dict(m) has every name of feature_names()    *)
(* as a key, with value m[name] when m has the name and 0 otherwise.       *)
C19_ToDictHasEveryName ==
    op = "to_dict" =>
        \A i \in DOMAIN feature_names :
            /\ feature_names[i] \in DOMAIN ret.value
            /\ ret.value[feature_names[i]] = Get(arg.data, feature_names[i], 0)

-----------------------------------------------------------------------------
(* The raw score of a trait *)

(* the sum of weight x value over the names that are keys of both mappings *)
RECURSIVE EntrySum(_, _, _)
EntrySum(trait_weights, normalized_features, entries) ==
    IF entries = {} THEN 0
    ELSE LET feature == CHOOSE f \in entries : TRUE
         IN  trait_weights[feature] * normalized_features[feature]
             + EntrySum(trait_weights, normalized_features, entries \ {feature})

(* the mapping without the key `feature` *)
Without(features, feature) ==
    [f \in DOMAIN features \ {feature} |-> features[f]]

(* the feature has no entry in the weight table of any trait *)
NoEntry(feature) ==
    \A trait \in Traits : feature \notin DOMAIN Get(weights, trait, EmptyMap)

(* C20: the raw score of every trait is the sum of weight x value over the *)
(* features that have an entry in the trait's weight table, and removing   *)
(* from the input a feature that has no entry in any table leaves the      *)
(* outcome of score(), every trait score included, unchanged.              *)
C20_RawScoreSumsEntries ==
    (op = "score" /\ Normalized.raised = "none") =>
        /\ \A trait \in Traits :
               LET trait_weights == Get(weights, trait, EmptyMap)
               IN  ComputeTraitScore(weights, Normalized.value, trait)
                   = EntrySum(trait_weights, Normalized.value,
                              DOMAIN trait_weights \cap DOMAIN Normalized.value)
        /\ \A feature \in DOMAIN arg.features :
               NoEntry(feature) =>
                   ret = ScoreOutcome(weights, is_fitted, preset, stats,
                                      Without(arg.features, feature), arg.normalize)

(* a scored mapping that holds a feature without entries next to wpsec *)
C20_Witness ==
    /\ Scored
    /\ weights = FEATURE_WEIGHTS
    /\ "zz" \in DOMAIN arg.features
    /\ NoEntry("zz")
    /\ arg.features["zz"] > 0
    /\ "wpsec" \in DOMAIN arg.features
    /\ ret.value["overall"] > Hundred \div 2

-----------------------------------------------------------------------------
(* Properties of the matchers *)

(* the positions of the content tokens of the call *)
content_of_call ==
    {i \in DOMAIN tokens_of_call : tokens_of_call[i].tag \notin EXCLUDED_TAGS}

(* the lemma sets in the order singular, plural, third person *)
PronounLemmas == <<PRONOUNS_I_LEMMAS, PRONOUNS_WE_LEMMAS, PRONOUNS_THEY_LEMMAS>>

(* the one class of a token: the first set holding its form; failing that  *)
(* and for the tag NP, the first set with a lemma inside the form; else 0  *)
PronounClass(token) ==
    LET exact == {k \in DOMAIN PronounLemmas : token.form \in PronounLemmas[k]}
        held == {k \in DOMAIN PronounLemmas :
                     \E p \in PronounLemmas[k] : Contains(token.form, p)}
        Least(S) == CHOOSE k \in S : \A j \in S : k <= j
    IN  IF exact # {} THEN Least(exact)
        ELSE IF token.tag = "NP" /\ held # {} THEN Least(held)
        ELSE 0

InClass(k) == {i \in content_of_call : PronounClass(tokens_of_call[i]) = k}

(* C21: the Pronoun extractor puts every content token in exactly one of   *)
(* singular, plural, third person and none: the first exact lemma match in *)
(* that order, and only without one and for the tag NP the first           *)
(* containment match in that order; so the three counts are those of the   *)
(* classes and together at most the number of content tokens.              *)
C21_PronounFirstMatchWins ==
    Extracted =>
        LET total == Cardinality(content_of_call)
            content_tokens == PronounContentTokens(tokens_of_call)
        IN  /\ ret.value["i_ratio"] = SafeRatio(Cardinality(InClass(1)), total)
            /\ ret.value["we_ratio"] = SafeRatio(Cardinality(InClass(2)), total)
            /\ ret.value["they_ratio"] = SafeRatio(Cardinality(InClass(3)), total)
            /\ PronounCount(content_tokens, "i") + PronounCount(content_tokens, "we")
                   + PronounCount(content_tokens, "they") <= total

(* a compound pronoun holding a singular and a plural lemma, counted as    *)
(* singular, next to a noun that holds a lemma and is not counted          *)
C21_Witness ==
    /\ Extracted
    /\ \E i, j \in content_of_call :
           /\ tokens_of_call[i] = Token(<<"jeo", "hui", "deul">>, "NP")
           /\ tokens_of_call[j] = Token(<<"na", "ra">>, "NNG")
    /\ ret.value["i_ratio"] = HALF
    /\ ret.value["we_ratio"] = 0

-----------------------------------------------------------------------------
(* The Emotion and Cognitive matchers on any tokens and dictionary *)

MaxMatchTokens == 2     \* longest token list handed to a matcher

MatchForms == {<<>>, <<"a">>, <<"a", "b">>, <<"b", "a">>, <<"a", "b", "b">>, <<"b", "b">>}
MatchTags == {"VA", "VCP", "NNG"}
MatchTokens == {Token(form, tag) : form \in MatchForms, tag \in MatchTags}
MatchTokenSeqs == UNION {[1..n -> MatchTokens] : n \in 0..MaxMatchTokens}
MatchWords == {<<"a">>, <<"a", "b">>, <<"b", "a", "b">>}

InitMatch ==
    /\ kind = "matcher"
    /\ preset = EmptyMap
    /\ stats = EmptyMap
    /\ is_fitted = FALSE
    /\ weights = EmptyMap
    /\ vector = EmptyMap
    /\ segments = <<>>
    /\ op = "init"
    /\ \E tokens \in MatchTokenSeqs : \E word_set \in SUBSET MatchWords :
           arg = [tokens |-> tokens, word_set |-> word_set]
    /\ ret = Return(EmptyMap)
    /\ fit_called = FALSE
    /\ file = NoFile
    /\ threads = EmptyMap

CountEmotionWordsCall ==
    /\ kind = "matcher"
    /\ op = "init"
    /\ op' = "_count_emotion_words"
    /\ ret' = Return([count |-> CountEmotionWords(arg.tokens, arg.word_set)])
    /\ UNCHANGED <<kind, preset, stats, is_fitted, arg, fit_called, file, threads, weights, vector, segments>>

CountCognitiveWordsCall ==
    /\ kind = "matcher"
    /\ op = "init"
    /\ op' = "_count_cognitive_words"
    /\ ret' = Return([count |-> CountCognitiveWords(arg.tokens, arg.word_set)])
    /\ UNCHANGED <<kind, preset, stats, is_fitted, arg, fit_called, file, threads, weights, vector, segments>>

NextMatch == CountEmotionWordsCall \/ CountCognitiveWordsCall

SpecMatch == InitMatch /\ [][NextMatch]_vars

(* the token is one the claim counts: its form is an entry, or its tag is  *)
(* VV, VA or VX and the first two characters of its form are the first two *)
(* characters of an entry of length >= 2                                   *)
VerbStemMatch(token, word_set) ==
    \/ token.form \in word_set
    \/ /\ token.tag \in {"VV", "VA", "VX"}
       /\ Len(token.form) >= 2
       /\ \E word \in word_set :
              Len(word) >= 2 /\ SubSeq(token.form, 1, 2) = SubSeq(word, 1, 2)

(* C22: the Emotion matcher counts each token once when its form is a      *)
(* dictionary entry, or its tag is VV, VA or VX and its first two          *)
(* characters are those of an entry of length >= 2, and no other token;    *)
(* the Cognitive matcher returns the same count on the same input.         *)
C22_VerbStemMatcher ==
    op \in {"_count_emotion_words", "_count_cognitive_words"} =>
        /\ ret.raised = "none"
        /\ ret.value.count =
               Cardinality({i \in DOMAIN arg.tokens :
                                VerbStemMatch(arg.tokens[i], arg.word_set)})
        /\ CountEmotionWords(arg.tokens, arg.word_set) = ret.value.count
        /\ CountCognitiveWords(arg.tokens, arg.word_set) = ret.value.count

(* an adjective matched by its first two characters next to a copula with  *)
(* the same form that is not, with a one-character entry in the dictionary *)
C22_Witness ==
    /\ op = "_count_emotion_words"
    /\ arg.word_set = {<<"a">>, <<"a", "b">>}
    /\ arg.tokens = <<Token(<<"a", "b", "b">>, "VA"), Token(<<"a", "b", "b">>, "VCP")>>
    /\ ret.value.count = 1

(* the token is one the claim counts for the dictionary: its form is an    *)
(* entry, or a prefix of an entry, or has an entry of length >= 2 as a     *)
(* prefix                                                                  *)
PrefixMatch(token, word_set) ==
    \/ token.form \in word_set
    \/ \E word \in word_set : StartsWith(word, token.form)
    \/ \E word \in word_set : Len(word) >= 2 /\ StartsWith(token.form, word)

PrefixMatches(word_set) ==
    {i \in content_of_call : PrefixMatch(tokens_of_call[i], word_set)}

(* C23: for the quantifier, work and relativity dictionaries a content     *)
(* token is counted once when its form is an entry, or a prefix of an      *)
(* entry, or has an entry of length >= 2 as a prefix, and not otherwise.   *)
C23_DictionaryPrefixMatch ==
    Extracted =>
        LET total == Cardinality(content_of_call)
        IN  /\ ret.value["quantifier_ratio"]
                   = SafeRatio(Cardinality(PrefixMatches(QUANTIFIERS)), total)
            /\ ret.value["work_ratio"]
                   = SafeRatio(Cardinality(PrefixMatches(WORK)), total)
            /\ ret.value["relativity_ratio"]
                   = SafeRatio(Cardinality(PrefixMatches(RELATIVITY)), total)

(* a prefix of a work noun, counted, next to a noun that only starts with  *)
(* a one-character work noun, not counted                                  *)
C23_Witness ==
    /\ Extracted
    /\ \E i, j \in content_of_call :
           /\ tokens_of_call[i] = Token(<<"hoe">>, "NNG")
           /\ tokens_of_call[j] = Token(<<"il", "yo", "il">>, "NNG")
    /\ ret.value["work_ratio"] = HALF

-----------------------------------------------------------------------------
(* Feature extraction on filler words *)

MaxFillerTokens == 3     \* longest token list of fillers

FillerUniverse ==
    {Token(<<"yag", "gan">>, "MAG"),        \* filler, weight 0.6
     Token(<<"mag">>, "MAG"),               \* filler, weight 0.7
     Token(<<"geu", "ri", "go">>, "MAJ"),   \* filler, weight 0.3
     Token(<<"eum">>, "IC"),                \* filler, weight 1.0
     Token(<<"hoe", "sa">>, "NNG"),         \* no filler
     Token(<<".">>, "SF")}                  \* full stop

FillerSeqs == UNION {[1..n -> FillerUniverse] : n \in 0..MaxFillerTokens}

InitFiller ==
    /\ kind = "analyzer"
    /\ preset = EmptyMap
    /\ stats = EmptyMap
    /\ is_fitted = FALSE
    /\ weights = FEATURE_WEIGHTS
    /\ vector = EmptyMap
    /\ segments = <<>>
    /\ op = "init"
    /\ \E kiwi \in FillerSeqs : \E duration \in Durations :
           arg = [text |-> <<"eum">>, kiwi |-> kiwi, duration |-> duration]
    /\ ret = Return(EmptyMap)
    /\ fit_called = FALSE
    /\ file = NoFile
    /\ threads = EmptyMap

SpecFiller == InitFiller /\ [][NextExtract]_vars

(* the sum of the filler weights of the content tokens of the call, as the *)
(* number it is, in units of 1 / SCALE                                     *)
RECURSIVE WeightSum(_)
WeightSum(positions) ==
    IF positions = {} THEN 0
    ELSE LET i == CHOOSE j \in positions : TRUE
         IN  FillerLiteral(tokens_of_call[i].form) + WeightSum(positions \ {i})

(* C24: Speaking Rate and Miscellaneous use one filler numerator, the sum  *)
(* of the filler weights of the content tokens truncated to an integer:    *)
(* fpsec is that integer over the duration, nonfluency_ratio that integer  *)
(* over the number of content tokens, and both are 0 when the weights sum  *)
(* to less than 1.                                                         *)
C24_FillerNumerator ==
    Extracted =>
        LET numerator == WeightSum(content_of_call) \div SCALE
        IN  /\ ret.value["fpsec"] = SafeRate(numerator, arg.duration)
            /\ ret.value["nonfluency_ratio"]
                   = SafeRatio(numerator, Cardinality(content_of_call))
            /\ WeightSum(content_of_call) < SCALE =>
                   ret.value["fpsec"] = 0 /\ ret.value["nonfluency_ratio"] = 0

----------------------------------------------------------------------------
(* fit() running while another thread is inside transform() on the same
   instance.  fit() writes _stats in place: the clear, then one write per
   item (MinMaxNormalizer) or per feature (ZScoreNormalizer), and at the
   end _is_fitted = True.  The writer is the entry "w" of threads. *)

Reader == "t1"
Writer == "w"

(* the lists the writer fits: up to MaxBatch samples holding both features *)
FitConcSamples == ConcInputs \ {EmptyMap}
FitConcBatches == UNION {[1..n -> FitConcSamples] : n \in 0..MaxBatch}

FitIdle == [pc |-> "idle", features_list |-> <<>>, i |-> 0, todo |-> {},
            before |-> EmptyMap]

(* mutant: fit() does not clear _stats before it refills it *)
StatsAfterClear_Keeps(st) == st

(* self._stats.clear() *)
StatsAfterClear(st) == EmptyMap

(* the first sample at or after index i that has an item left to visit *)
RECURSIVE NextSample(_, _)
NextSample(features_list, i) ==
    IF i > Len(features_list) \/ DOMAIN features_list[i] # {} THEN i
    ELSE NextSample(features_list, i + 1)

ItemsOf(features_list, i) ==
    IF i > Len(features_list) THEN {} ELSE DOMAIN features_list[i]

(* MinMaxNormalizer.fit, line 56: the clear; the loops start *)
MMFitBegin(features_list) ==
    /\ kind = "minmax"
    /\ threads[Writer].pc = "idle"
    /\ stats' = StatsAfterClear(stats)
    /\ threads' = [threads EXCEPT ![Writer] =
          [pc |-> "loop", features_list |-> features_list,
           i |-> NextSample(features_list, 1),
           todo |-> ItemsOf(features_list, NextSample(features_list, 1)),
           before |-> stats]]
    /\ fit_called' = TRUE
    /\ UNCHANGED <<kind, preset, is_fitted, op, arg, ret, file, weights, vector, segments>>

(* lines 59-66: one item of one sample *)
MMFitStep ==
    /\ kind = "minmax"
    /\ threads[Writer].pc = "loop"
    /\ \E name \in threads[Writer].todo :
          LET w == threads[Writer]
              rest == w.todo \ {name}
              j == IF rest = {} THEN NextSample(w.features_list, w.i + 1) ELSE w.i
          IN  /\ stats' = MMFitItem(stats, name, w.features_list[w.i][name])
              /\ threads' = [threads EXCEPT
                    ![Writer].i = j,
                    ![Writer].todo = IF rest = {} THEN ItemsOf(w.features_list, j)
                                     ELSE rest]
    /\ UNCHANGED <<kind, preset, is_fitted, op, arg, ret, fit_called, file, weights, vector, segments>>

(* lines 68-69 *)
MMFitEnd ==
    /\ kind = "minmax"
    /\ threads[Writer].pc = "loop"
    /\ threads[Writer].todo = {}
    /\ is_fitted' = TRUE
    /\ threads' = [threads EXCEPT ![Writer].pc = "done"]
    /\ UNCHANGED <<kind, preset, stats, op, arg, ret, fit_called, file, weights, vector, segments>>

(* ZScoreNormalizer.fit, lines 200-212: the early return on an empty list;
   otherwise the values are collected in a local dict, and _stats is cleared *)
ZFitBegin(features_list) ==
    /\ kind = "zscore"
    /\ threads[Writer].pc = "idle"
    /\ IF features_list = <<>>
       THEN /\ threads' = [threads EXCEPT ![Writer] =
                  [FitIdle EXCEPT !.pc = "done", !.before = stats]]
            /\ UNCHANGED stats
       ELSE /\ stats' = StatsAfterClear(stats)
            /\ threads' = [threads EXCEPT ![Writer] =
                  [pc |-> "loop", features_list |-> features_list, i |-> 0,
                   todo |-> DOMAIN ZFit(features_list), before |-> stats]]
    /\ fit_called' = TRUE
    /\ UNCHANGED <<kind, preset, is_fitted, op, arg, ret, file, weights, vector, segments>>

(* lines 213-226: the statistics of one feature are stored *)
ZFitStep ==
    /\ kind = "zscore"
    /\ threads[Writer].pc = "loop"
    /\ \E name \in threads[Writer].todo :
          /\ stats' = [n \in DOMAIN stats \cup {name} |->
                IF n = name
                THEN ZFitFeature(FeatureValues(threads[Writer].features_list, name, 1))
                ELSE stats[n]]
          /\ threads' = [threads EXCEPT ![Writer].todo = @ \ {name}]
    /\ UNCHANGED <<kind, preset, is_fitted, op, arg, ret, fit_called, file, weights, vector, segments>>

(* lines 228-229 *)
ZFitEnd ==
    /\ kind = "zscore"
    /\ threads[Writer].pc = "loop"
    /\ threads[Writer].todo = {}
    /\ is_fitted' = TRUE
    /\ threads' = [threads EXCEPT ![Writer].pc = "done"]
    /\ UNCHANGED <<kind, preset, stats, op, arg, ret, fit_called, file, weights, vector, segments>>

(* the lists the instance was fitted on before the threads start *)
FirstFitBatches ==
    {<<[name \in Names |-> 0], [name \in Names |-> 2 * ONE]>>,
     <<[name \in Names |-> ONE]>>}

(* an instance that has been fitted once, a reader and a writer *)
InitFitConc ==
    /\ \E features_list \in FirstFitBatches :
          \/ /\ kind = "minmax"
             /\ preset \in {EmptyMap, "a" :> <<0, 2 * ONE>>}
             /\ stats = MMFit(features_list)
          \/ /\ kind = "zscore"
             /\ preset = EmptyMap
             /\ stats = ZFit(features_list)
    /\ is_fitted = TRUE
    /\ fit_called = TRUE
    /\ op = "init"
    /\ arg = EmptyMap
    /\ ret = Return(EmptyMap)
    /\ file = NoFile
    /\ threads = (Reader :> Idle) @@ (Writer :> FitIdle)
    /\ weights = EmptyMap
    /\ vector = EmptyMap
    /\ segments = <<>>

NextFitConc ==
    \/ \E features \in ConcInputs : TransformBegin(Reader, features)
    \/ TransformStep(Reader)
    \/ TransformEnd(Reader)
    \/ \E features_list \in FitConcBatches : MMFitBegin(features_list)
    \/ MMFitStep
    \/ MMFitEnd
    \/ \E features_list \in FitConcBatches : ZFitBegin(features_list)
    \/ ZFitStep
    \/ ZFitEnd

SpecFitConc == InitFitConc /\ [][NextFitConc]_vars

(* what the writer has stored so far, computed from its position alone *)
PartialStats(w) ==
    IF kind = "minmax"
    THEN IF w.i > Len(w.features_list) THEN MMFit(w.features_list)
         ELSE MMFitSample(MMFitFrom(EmptyMap, SubSeq(w.features_list, 1, w.i - 1), 1),
                          w.features_list[w.i], DOMAIN w.features_list[w.i] \ w.todo)
    ELSE [name \in DOMAIN ZFit(w.features_list) \ w.todo |-> ZFit(w.features_list)[name]]

(* normalized[name] computed against the parameters st *)
TransformItemWith(st, name, value) ==
    IF kind = "minmax" THEN MMTransformItem(preset, st, name, value)
    ELSE ZTransformItem(st, name, value)

(* transform(features) run alone against the parameters st *)
TransformWith(st, features) ==
    [name \in DOMAIN features |-> TransformItemWith(st, name, features[name])]

FitInProgress == threads[Writer].pc = "loop"

(* the parameters once the writer's fit() has returned *)
AfterStats(w) ==
    IF kind = "minmax" THEN MMFit(w.features_list)
    ELSE IF w.features_list = <<>> THEN w.before ELSE ZFit(w.features_list)

(* C25: while fit() is in progress on a fitted instance the guard of
   transform() still passes, and every loop pass transform() makes then is
   computed against the partially written parameters: those the writer has
   stored so far since the clear, not those before the fit and not those
   after it. *)
C25_TransformSeesPartialFit ==
    [][(FitInProgress /\ threads'[Reader] # threads[Reader]) =>
          /\ is_fitted
          /\ stats = PartialStats(threads[Writer])
          /\ threads[Reader].pc = "loop" /\ threads'[Reader].pc = "loop" =>
                \A name \in threads[Reader].todo \ threads'[Reader].todo :
                    threads'[Reader].normalized[name] =
                        TransformItemWith(PartialStats(threads[Writer]), name,
                                          threads[Reader].features[name])]_vars

(* a transform() call that ran across a fit() has returned a dict that is
   neither the one the parameters before the fit give nor the one the
   parameters after it give *)
C25_Witness ==
    /\ threads[Writer].pc = "done"
    /\ threads[Reader].pc = "done"
    /\ threads[Reader].ret.raised = "none"
    /\ threads[Reader].ret.value # TransformWith(threads[Writer].before, threads[Reader].features)
    /\ threads[Reader].ret.value # TransformWith(AfterStats(threads[Writer]), threads[Reader].features)

----------------------------------------------------------------------------
(* Digits and the number feature *)

HasTag(tokens, tag) == \E i \in DOMAIN tokens : tokens[i].tag = tag

(* C26 as stated: SN tokens are kept for the number feature and counted in
   the numerator of number_ratio, so a call whose tokens hold a token tagged
   SN returns a number_ratio above 0. *)
C26_DigitsCounted ==
    (Extracted /\ HasTag(tokens_of_call, "SN")) => ret.value["number_ratio"] > 0

----------------------------------------------------------------------------
(* The fitted flag after fit() *)

(* C27 as stated: once fit() has returned, whatever the list it was given,
   is_fitted is true and a following transform() does not raise. *)
C27_FittedAfterFit ==
    op = "fit" =>
        /\ is_fitted
        /\ \A features \in Inputs : TransformResult(features).raised = "none"

----------------------------------------------------------------------------
(* MinMaxNormalizer with preset ranges: fit(), transform(), get_ranges() *)

(* mutant: a fitted range replaces the preset one in the report *)
GetRanges_FittedOverPreset(pr, st) ==
    [name \in DOMAIN pr \cup DOMAIN st |->
        IF name \in DOMAIN st THEN <<st[name].min_val, st[name].max_val>>
        ELSE pr[name]]

(* get_ranges, lines 137-141: the presets, then the fitted ranges of the
   names that have no preset *)
GetRanges(pr, st) ==
    [name \in DOMAIN pr \cup DOMAIN st |->
        IF name \in DOMAIN pr THEN pr[name]
        ELSE <<st[name].min_val, st[name].max_val>>]

(* MinMaxNormalizer.get_ranges *)
GetRangesCall ==
    /\ kind = "minmax"
    /\ op' = "get_ranges"
    /\ arg' = EmptyMap
    /\ ret' = Return(GetRanges(preset, stats))
    /\ UNCHANGED <<kind, preset, stats, is_fitted, fit_called, file, threads, weights, vector, segments>>

InitRanges ==
    /\ \E preset_ranges \in PresetRanges : MMInit(preset_ranges)
    /\ Untouched

NextRanges ==
    \/ \E features_list \in FitBatches : MMFitCall(features_list)
    \/ \E features \in Inputs : kind = "minmax" /\ TransformCall(features)
    \/ GetRangesCall

SpecRanges == InitRanges /\ [][NextRanges]_vars

(* the smallest and the largest value a list holds for a feature *)
ValuesOf(features_list, name) ==
    {features_list[i][name] :
        i \in {j \in DOMAIN features_list : name \in DOMAIN features_list[j]}}

Smallest(S) == CHOOSE x \in S : \A y \in S : x <= y
Largest(S) == CHOOSE x \in S : \A y \in S : x >= y

(* C28: fit() leaves the presets alone and stores the ranges of the list it
   was given and nothing else; transform() and get_ranges() store nothing;
   transform() normalizes a feature with its preset range when it has one,
   else with its fitted range, else not at all; and get_ranges() lists for
   each feature the very range transform() normalizes it with, and no
   feature that transform() passes through. *)
C28_PresetsWin ==
    [][/\ preset' = preset
       /\ op' = "fit" =>
             /\ DOMAIN stats' = UNION {DOMAIN arg'[i] : i \in DOMAIN arg'}
             /\ \A name \in DOMAIN stats' :
                   /\ stats'[name].min_val = Smallest(ValuesOf(arg', name))
                   /\ stats'[name].max_val = Largest(ValuesOf(arg', name))
       /\ op' # "fit" => stats' = stats
       /\ (op' = "transform" /\ ret'.raised = "none") =>
             \A name \in DOMAIN arg' :
                 ret'.value[name] =
                     IF name \in DOMAIN preset
                     THEN MMNormalize(preset[name][1], preset[name][2], arg'[name])
                     ELSE IF name \in DOMAIN stats
                     THEN MMNormalize(stats[name].min_val, stats[name].max_val, arg'[name])
                     ELSE arg'[name]
       /\ op' = "get_ranges" =>
             \A name \in Names, value \in Vals :
                 LET normalized == MMTransform(preset, stats, name :> value)[name]
                 IN  IF name \in DOMAIN ret'.value
                     THEN normalized = MMNormalize(ret'.value[name][1],
                                                   ret'.value[name][2], value)
                     ELSE normalized = value]_vars

(* get_ranges() has been called on an instance whose preset feature was
   then fitted on values that span another range *)
C28_Witness ==
    /\ op = "get_ranges"
    /\ fit_called
    /\ \E name \in DOMAIN preset \cap DOMAIN stats :
          /\ preset[name] # <<stats[name].min_val, stats[name].max_val>>
          /\ ret.value[name] = preset[name]

----------------------------------------------------------------------------
(* Transcript: add_segment, total_duration, and analyze_transcript on an
   InterviewAnalyzer() built with the defaults.  Times are floats in units
   of 1/SCALE second. *)

MaxSegments == 2    \* longest segment list

TimeVals == {-ONE, 0, ONE}
SegmentTexts == {<<>>, <<"eum">>}

(* what the tokenizer may find in a transcript's text *)
TranscriptKiwi == {<<>>, <<Token(<<"eum">>, "IC")>>,
                   <<Token(<<"eum">>, "IC"), Token(<<"hoe", "sa">>, "NNG")>>}

Segment(text, start, end) == [text |-> text, start |-> start, end |-> end]

(* mutant: a negative start is accepted *)
PostInit_NoStartCheck(start, end) ==
    IF end < start THEN Raise("ValueError") ELSE Return(EmptyMap)

(* Segment.__post_init__ *)
PostInit(start, end) ==
    IF end < start THEN Raise("ValueError")
    ELSE IF start < 0 THEN Raise("ValueError")
    ELSE Return(EmptyMap)

(* max(seg.end for seg in segs) and min(seg.start for seg in segs) *)
RECURSIVE MaxEnd(_)
MaxEnd(segs) ==
    IF Len(segs) = 1 THEN segs[1].end ELSE Max(segs[1].end, MaxEnd(Tail(segs)))

RECURSIVE MinStart(_)
MinStart(segs) ==
    IF Len(segs) = 1 THEN segs[1].start ELSE Min(segs[1].start, MinStart(Tail(segs)))

(* Transcript.total_duration *)
TotalDuration(segs) == IF segs = <<>> THEN 0 ELSE MaxEnd(segs) - MinStart(segs)

(* Transcript.total_text: " ".join(seg.text for seg in segs) *)
RECURSIVE TotalText(_)
TotalText(segs) ==
    IF segs = <<>> THEN <<>>
    ELSE IF Len(segs) = 1 THEN segs[1].text
    ELSE segs[1].text \o <<" ">> \o TotalText(Tail(segs))

(* InterviewAnalyzer.analyze(text, duration), the tokenizer finding kiwi *)
Analyze(text, kiwi, duration) ==
    LET features == ExtractFeatures(text, kiwi, duration)
        scores == ScoreOutcome(weights, is_fitted, preset, stats, features, TRUE)
    IN  IF scores.raised # "none" THEN scores
        ELSE Return([text |-> text, duration |-> duration,
                     features |-> features, scores |-> scores.value])

(* Transcript.add_segment(text, start, end) *)
AddSegmentCall(text, start, end) ==
    /\ kind = "transcript"
    /\ Len(segments) < MaxSegments \/ PostInit(start, end).raised # "none"
    /\ op' = "add_segment"
    /\ arg' = [text |-> text, start |-> start, end |-> end]
    /\ ret' = PostInit(start, end)
    /\ segments' = IF PostInit(start, end).raised = "none"
                   THEN Append(segments, Segment(text, start, end))
                   ELSE segments
    /\ UNCHANGED <<kind, preset, stats, is_fitted, fit_called, file, threads, weights, vector>>

(* Transcript.total_duration *)
TotalDurationCall ==
    /\ kind = "transcript"
    /\ op' = "total_duration"
    /\ arg' = EmptyMap
    /\ ret' = Return([total_duration |-> TotalDuration(segments)])
    /\ UNCHANGED <<kind, preset, stats, is_fitted, fit_called, file, threads, weights, vector, segments>>

(* InterviewAnalyzer.analyze_transcript(transcript) *)
AnalyzeTranscriptCall(kiwi) ==
    /\ kind = "transcript"
    /\ op' = "analyze_transcript"
    /\ arg' = [kiwi |-> kiwi]
    /\ ret' = Analyze(TotalText(segments), kiwi, TotalDuration(segments))
    /\ UNCHANGED <<kind, preset, stats, is_fitted, fit_called, file, threads, weights, vector, segments>>

(* Transcript() and InterviewAnalyzer() *)
InitTranscript ==
    /\ kind = "transcript"
    /\ segments = <<>>
    /\ preset = DEFAULT_FEATURE_RANGES
    /\ stats = EmptyMap
    /\ is_fitted = TRUE
    /\ weights = FEATURE_WEIGHTS
    /\ vector = EmptyMap
    /\ op = "init"
    /\ arg = EmptyMap
    /\ ret = Return(EmptyMap)
    /\ fit_called = FALSE
    /\ file = NoFile
    /\ threads = EmptyMap

NextTranscript ==
    \/ \E text \in SegmentTexts, start \in TimeVals, end \in TimeVals :
            AddSegmentCall(text, start, end)
    \/ TotalDurationCall
    \/ \E kiwi \in TranscriptKiwi : AnalyzeTranscriptCall(kiwi)

SpecTranscript == InitTranscript /\ [][NextTranscript]_vars

Starts(segs) == {segs[i].start : i \in DOMAIN segs}
Ends(segs) == {segs[i].end : i \in DOMAIN segs}

(* latest end minus earliest start, 0.0 for no segment *)
Span(segs) == IF segs = <<>> THEN 0 ELSE Largest(Ends(segs)) - Smallest(Starts(segs))

(* C29: every stored segment has 0 <= start <= end; add_segment raises
   exactly when end < start or start < 0 and then leaves the list as it
   was, and otherwise appends the segment; total_duration is the latest end
   minus the earliest start (0.0 without segments) and is never negative;
   and it is the duration of the analysis analyze_transcript returns. *)
C29_SegmentsOrdered ==
    /\ [](\A i \in DOMAIN segments : 0 <= segments[i].start /\ segments[i].start <= segments[i].end)
    /\ [](TotalDuration(segments) = Span(segments) /\ TotalDuration(segments) >= 0)
    /\ [](op = "total_duration" => ret.value.total_duration = Span(segments))
    /\ [](op = "analyze_transcript" =>
             /\ ret.raised = "none"
             /\ ret.value.duration = Span(segments)
             /\ ret.value.features = ExtractFeatures(TotalText(segments), arg.kiwi, Span(segments)))
    /\ [][op' = "add_segment" /\ <<op, arg, ret, segments>>' # <<op, arg, ret, segments>> =>
             IF arg'.end < arg'.start \/ arg'.start < 0
             THEN ret'.raised = "ValueError" /\ segments' = segments
             ELSE /\ ret'.raised = "none"
                  /\ segments' = Append(segments, Segment(arg'.text, arg'.start, arg'.end))]_vars

(* a call was refused on a transcript of two segments, the later one stored
   first, that spans some time *)
C29_Witness ==
    /\ op = "add_segment"
    /\ ret.raised = "ValueError"
    /\ arg.start < 0
    /\ Len(segments) = 2
    /\ segments[2].start < segments[1].start
    /\ TotalDuration(segments) > 0

----------------------------------------------------------------------------
(* The combined negative-emotion count and its three sub-categories *)

EmotionTokensOfCall == EmotionContentTokens(tokens_of_call)

(* the content tokens _count_emotion_words counts for a dictionary *)
EmotionMatches(emotion_set) ==
    {i \in DOMAIN EmotionTokensOfCall :
        CountEmotionWords(<<EmotionTokensOfCall[i]>>, emotion_set) = 1}

(* C30: every content token counted for anxiety, anger or sadness is
   counted for the combined negative dictionary too, so neg_emotion_ratio
   is at least anxiety_ratio, anger_ratio and sadness_ratio. *)
C30_NegativeCoversSubCategories ==
    Extracted =>
        /\ \A emotion_set \in {ANXIETY, ANGER, SADNESS} :
              EmotionMatches(emotion_set) \subseteq EmotionMatches(ALL_NEGATIVE_EMOTION)
        /\ ret.value["neg_emotion_ratio"] =
              SafeRatio(Cardinality(EmotionMatches(ALL_NEGATIVE_EMOTION)),
                        Len(EmotionTokensOfCall))
        /\ \A name \in {"anxiety_ratio", "anger_ratio", "sadness_ratio"} :
              ret.value["neg_emotion_ratio"] >= ret.value[name]

(* a call whose tokens hold an anxiety word and a sadness stem that the
   negative dictionary alone does not hold *)
C30_Witness ==
    /\ Extracted
    /\ ret.value["anxiety_ratio"] > 0
    /\ ret.value["sadness_ratio"] > 0
    /\ EmotionMatches(ANXIETY) \cap EmotionMatches(NEGATIVE_EMOTION) = {}
    /\ ret.value["neg_emotion_ratio"] = ONE

====
